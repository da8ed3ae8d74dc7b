------------------------------- MODULE Console -------------------------------
(***************************************************************************)
(* The VGA text console, drivers/vga/vga.c, and the conversions k_itoa     *)
(* (kernel/util.c) and itox it prints numbers with.  The one caller is      *)
(* isr_handler, for int 0xB1.                                              *)
(***************************************************************************)
EXTENDS Integers, Sequences, SequencesExt

CONSTANTS
  VGA_SCREEN_WIDTH, VGA_SCREEN_HEIGHT,
  Formats,          \* what k_print is called with: formats with their arguments
  Colors,           \* foreground colours for k_set_color
  MaxPrints         \* bound: calls

\* A tab, a percent sign or the smallest number in a %s, %c or %d would not come out
\* as an ideal terminal has it; nor would a control character behind a percent sign.
Orderly(str) == /\ Len(str) \in Nat /\ DOMAIN str = 1..Len(str)
                /\ \A i \in DOMAIN str : str[i] \notin {"\t", "%"}
Sensible(f) == \/ f.conv = "none" /\ f.arg # "%"
               \/ f.conv = "d" /\ f.arg \in Int /\ -2147483647 <= f.arg /\ f.arg <= 2147483647
               \/ f.conv = "s" /\ Orderly(f.arg)
               \/ f.conv = "hex" /\ f.arg \in Nat
               \/ f.conv = "c" /\ f.arg \notin {"\t", "%"}
               \/ f.conv = "other" /\ f.arg \notin {"\n", "\r", "\t"}

ASSUME ConsoleAssumption ==
  /\ VGA_SCREEN_WIDTH \in Nat \ {0} /\ VGA_SCREEN_WIDTH % 4 = 0
  /\ VGA_SCREEN_HEIGHT \in Nat \ {0}
  /\ \A format \in Formats : /\ Len(format) \in Nat /\ DOMAIN format = 1..Len(format)
                             /\ \A i \in DOMAIN format : Sensible(format[i])

W == VGA_SCREEN_WIDTH
H == VGA_SCREEN_HEIGHT

VARIABLES
  console,          \* vga (cells by index), column, line and current_color
  paper,            \* ghost: what an ideal terminal shows: rows, and the cursor
  prints            \* number of calls so far

consoleVars == <<console, paper, prints>>

-----------------------------------------------------------------------------
BlankChar == " "
DefColor == 8       \* COLOR_GREY on COLOR_BLACK
Cell(c, color) == [char |-> c, color |-> color]

\* Cells past the screen are memory too.
Cells == 0..W * H + 3

k_scroll_up(s) ==
  [s EXCEPT !.vga = [i \in Cells |->
     CASE i < W * (H - 1) -> s.vga[i + W]
       [] i \in W * (H - 1)..W * H - 1 -> Cell(BlankChar, s.current_color)
       [] OTHER -> s.vga[i]]]

k_new_line_stay(s) ==      \* mutant: the column survives a scroll
  IF s.line < H - 1 THEN [s EXCEPT !.line = @ + 1, !.column = 0] ELSE k_scroll_up(s)

k_new_line(s) ==
  IF s.line < H - 1 THEN [s EXCEPT !.line = @ + 1, !.column = 0]
                    ELSE [k_scroll_up(s) EXCEPT !.column = 0]

\* vga[line * VGA_SCREEN_WIDTH + (column++)] = c | current_color
PutCell(s, c) == [s EXCEPT !.vga[s.line * W + s.column] = Cell(c, s.current_color),
                           !.column = @ + 1]

-----------------------------------------------------------------------------
HexDigits == <<"0", "1", "2", "3", "4", "5", "6", "7", "8", "9", "A", "B", "C", "D",
               "E", "F">>
DigitChar(d) == HexDigits[d + 1]

\* The digits k_itoa takes off, least significant first: at most ten.
TakeDigit(a) == IF a.rest > 0
                THEN [rest |-> a.rest \div 10, out |-> Append(a.out, DigitChar(a.rest % 10))]
                ELSE a
Digits(n) ==
  LET loop[i \in 0..10] == IF i = 0 THEN [rest |-> n, out |-> <<>>] ELSE TakeDigit(loop[i-1])
  IN  loop[10].out

k_itoa(n) == IF n = 0 THEN <<"0">>
             ELSE Reverse(Digits(IF n < 0 THEN -n ELSE n)
                          \o (IF n < 0 THEN <<"-">> ELSE <<>>))

\* val >> (28 - i * 4) of the code is division by 2^28, 2^24, ..., 1.
Weights == <<268435456, 16777216, 1048576, 65536, 4096, 256, 16, 1>>
itox(n) == <<"0", "x">> \o [i \in 1..8 |-> DigitChar((n \div Weights[i]) % 16)]

Plain(s, c) == PutCell(IF s.column = W THEN k_new_line(s) ELSE s, c)

Tab(s) == LET put[n \in 0..4] == IF n = 0 THEN s ELSE PutCell(put[n-1], BlankChar)
          IN  put[4 - (s.column % 4)]

Control(s, c) == CASE c = "\n" -> k_new_line(s)
                   [] c = "\r" -> [s EXCEPT !.column = 0]
                   [] c = "\t" -> Tab(s)
                   [] OTHER    -> Plain(s, c)

Text(s, str) ==
  LET after[i \in 0..Len(str)] == IF i = 0 THEN s ELSE Control(after[i-1], str[i])
  IN  after[Len(str)]

\* A format is a sequence of characters and of conversions with their argument;
\* %c, %s and %d end in a k_print of their own, and so does k_print_hex ("hex");
\* other conversions print their letter.
PrintItem(s, f) ==
  CASE f.conv = "none"  -> Control(s, f.arg)
    [] f.conv = "d"     -> Text(s, k_itoa(f.arg))
    [] f.conv = "s"     -> Text(s, f.arg)
    [] f.conv = "hex"   -> Text(s, itox(f.arg))
    [] f.conv = "c"     -> Text(s, <<f.arg>>)
    [] f.conv = "other" -> PutCell(s, f.arg)

\* After each item of the format
Progress(s, format) ==
  LET after[i \in 0..Len(format)] == IF i = 0 THEN s ELSE PrintItem(after[i-1], format[i])
  IN  after

k_print(s, format) == Progress(s, format)[Len(format)]

-----------------------------------------------------------------------------
(* An ideal terminal: rows of W cells, a cursor that may stand behind the    *)
(* last cell of its row, and numbers in the usual notation.                  *)

BlankRow(color) == [x \in 0..W - 1 |-> Cell(BlankChar, color)]

Feed(t) == IF t.row < H THEN [t EXCEPT !.row = @ + 1, !.col = 0]
           ELSE [t EXCEPT !.rows = [y \in 1..H |-> IF y < H THEN t.rows[y + 1]
                                                          ELSE BlankRow(t.color)],
                          !.col = 0]

Type(t, c) == LET u == IF t.col = W THEN Feed(t) ELSE t
              IN  [u EXCEPT !.rows[u.row][u.col] = Cell(c, u.color), !.col = @ + 1]

Decimal(n) ==
  LET digits[m \in 0..n] == IF m < 10 THEN <<DigitChar(m)>>
                            ELSE Append(digits[m \div 10], DigitChar(m % 10))
  IN  digits[n]

\* The last eight hexadecimal digits
Hexadecimal(n) ==
  LET digits[k \in 0..8] ==
        IF k = 0 THEN [rest |-> n, out |-> <<>>]
        ELSE [rest |-> digits[k-1].rest \div 16,
              out  |-> <<DigitChar(digits[k-1].rest % 16)>> \o digits[k-1].out]
  IN  digits[8].out

ToTab(t) == LET blanks[n \in 0..4] == IF n = 0 THEN t ELSE Type(blanks[n-1], BlankChar)
            IN  blanks[CHOOSE n \in 1..4 : (t.col + n) % 4 = 0]

TypeControl(t, c) == CASE c = "\n" -> Feed(t)
                       [] c = "\r" -> [t EXCEPT !.col = 0]
                       [] c = "\t" -> ToTab(t)
                       [] OTHER    -> Type(t, c)

Typed(f) == CASE f.conv = "d" -> IF f.arg < 0 THEN <<"-">> \o Decimal(-f.arg)
                                             ELSE Decimal(f.arg)
              [] f.conv = "hex" -> <<"0", "x">> \o Hexadecimal(f.arg)
              [] f.conv = "s" -> f.arg
              [] OTHER        -> <<f.arg>>

TypeText(t, str) ==
  LET after[i \in 0..Len(str)] == IF i = 0 THEN t ELSE TypeControl(after[i-1], str[i])
  IN  after[Len(str)]

TypeFormat(t, format) ==
  LET after[i \in 0..Len(format)] ==
        IF i = 0 THEN t ELSE TypeText(after[i-1], Typed(format[i]))
  IN  after[Len(format)]

-----------------------------------------------------------------------------
\* Where the code prints a tab or the letter of a conversion without looking at
\* the end of the row, the cursor is not behind it.
Fits(s, format) ==
  \A i \in DOMAIN format :
    format[i].conv = "other" \/ (format[i].conv = "none" /\ format[i].arg = "\t")
      => Progress(s, format)[i-1].column < W

PrintFormat == \E format \in Formats :
                 /\ Fits(console, format)
                 /\ console' = k_print(console, format)
                 /\ paper' = TypeFormat(paper, format)

k_set_color == \E c \in Colors : /\ console' = [console EXCEPT !.current_color = c]
                                 /\ paper' = [paper EXCEPT !.color = c]

NewPaper(color) ==
  [rows |-> [y \in 1..H |-> BlankRow(color)], row |-> 1, col |-> 0, color |-> color]

k_reset ==
  /\ console' = [console EXCEPT
       !.vga = [i \in Cells |-> IF i < W * H THEN Cell(BlankChar, DefColor) ELSE @[i]],
       !.column = 0, !.line = 0, !.current_color = DefColor]
  /\ paper' = NewPaper(DefColor)

\* The screen the boot loader left, and .bss: nothing resets the console first.
ConsoleInit ==
  /\ console = [vga |-> [i \in Cells |-> Cell(BlankChar, 0)],
                column |-> 0, line |-> 0, current_color |-> 0]
  /\ paper = NewPaper(0)
  /\ prints = 0

ConsoleNext ==
  /\ prints < MaxPrints /\ prints' = prints + 1
  /\ PrintFormat \/ k_set_color \/ k_reset

ConsoleSpec == ConsoleInit /\ [][ConsoleNext]_consoleVars

-----------------------------------------------------------------------------
\* The screen shows what an ideal terminal shows, cursor included, and nothing
\* behind the screen is written, over any sequence of prints that wrap, scroll
\* and change colour (vga.c:33-109); numbers come out in decimal (util.c:22-52) or
\* with eight hexadecimal digits.
ScreenShowsPaper ==
  /\ console.line = paper.row - 1 /\ console.column = paper.col
  /\ \A i \in Cells :
       console.vga[i] = IF i < W * H THEN paper.rows[1 + i \div W][i % W]
                                     ELSE Cell(BlankChar, 0)
=============================================================================
