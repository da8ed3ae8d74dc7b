------------------------------- MODULE Graphics -------------------------------
(***************************************************************************)
(* The drawing calls, drivers/video/framebuffer.c and fonts/font_renderer.c*)
(* pixel by pixel: processes draw at the same time, through system calls   *)
(* that are preempted anywhere, into a frame buffer whose lines are longer *)
(* than the screen is wide.                                                *)
(***************************************************************************)
EXTENDS Integers, Sequences

CONSTANTS
  Painters, Calls,      \* the processes, and the calls each makes
  fb_width, fb_height,
  fb_pitch,             \* bytes from one line to the next
  Word,                 \* 2^32: coordinates wrap
  FontWidth, FontHeight,
  Glyphs                \* character -> its pixels, as pairs column and row

\* What a painter may call: a kind, the position, then size, colours and text
\* where they matter.
AnyCall ==
       [kind : {"clear"}, x : {0}, y : {0}, color : Int]
  \cup [kind : {"rect"}, x : Nat, y : Nat, w : Nat, h : Nat, color : Int]
  \cup [kind : {"pixel"}, x : Nat, y : Nat, color : Int]
  \cup [kind : {"string"}, x : Nat, y : Nat, str : Seq(DOMAIN Glyphs), color : Int, bg : Int]

\* Where a call ends, on the screen or not
Right(c) == CASE c.kind = "clear"  -> fb_width
              [] c.kind = "rect"   -> c.x + c.w
              [] c.kind = "pixel"  -> c.x + 1
              [] c.kind = "string" -> c.x + Len(c.str) * FontWidth
Bottom(c) == CASE c.kind = "clear"  -> fb_height
               [] c.kind = "rect"   -> c.y + c.h
               [] c.kind = "pixel"  -> c.y + 1
               [] c.kind = "string" -> c.y + FontHeight

\* The memory of the screen has addresses; the processes call with positions and
\* sizes that are far from 2^32 (usr/user_main.c, usr/executables/blinky.c).
ASSUME GraphicsAssumption ==
  /\ fb_width \in Nat /\ fb_height \in Nat /\ fb_pitch \in Nat /\ Word \in Nat
  /\ fb_pitch >= 4 * fb_width /\ fb_pitch * fb_height < Word
  /\ FontWidth \in Nat \ {0} /\ FontHeight \in Nat \ {0}
  /\ \A p \in Painters : \A c \in Calls[p] :
       c \in AnyCall /\ Right(c) <= Word /\ Bottom(c) <= Word

VARIABLES
  memory,               \* frame buffer memory by bytes: the pixel at an address
  drawing,              \* call in progress of each painter, or NoCall
  step,                 \* pixels of it that are done
  alone                 \* ghost: the last call of each, if no other has drawn there since

graphicsVars == <<memory, drawing, step, alone>>

-----------------------------------------------------------------------------
NoCall == [kind |-> "none"]
Blank  == 0

Addresses == 0..fb_pitch * fb_height

fb_put_pixel_inclusive(m, x, y, color) ==   \* mutant: > for >= in the first test
  IF x > fb_width \/ y >= fb_height THEN m
  ELSE [m EXCEPT ![y * fb_pitch + x * 4] = color]

fb_put_pixel(m, x, y, color) ==
  IF x >= fb_width \/ y >= fb_height THEN m
  ELSE [m EXCEPT ![y * fb_pitch + x * 4] = color]

Mask == <<128, 64, 32, 16, 8, 4, 2, 1>>      \* 0x80 >> b for b of 0..7

\* The font file (term-28x14-data.c): a glyph by rows of whole bytes, most
\* significant bit first.
BytesPerRow == (FontWidth + 7) \div 8
GlyphByte(c, n) ==
  LET row  == n \div BytesPerRow
      col  == 8 * (n % BytesPerRow)
      bits == [b \in 0..7 |-> IF <<col + b, row>> \in Glyphs[c] THEN Mask[b + 1] ELSE 0]
  IN  bits[0] + bits[1] + bits[2] + bits[3] + bits[4] + bits[5] + bits[6] + bits[7]

\* byte & (0x80 >> (col % 8))
GlyphBit(c, col, row) ==
  (GlyphByte(c, row * BytesPerRow + col \div 8) \div Mask[1 + (col % 8)]) % 2 = 1

\* The i-th store of a call.  A string is a character after the other.
Stores(c) == CASE c.kind = "clear" -> fb_width * fb_height
               [] c.kind = "rect"  -> c.w * c.h
               [] c.kind = "pixel" -> 1
               [] c.kind = "string" -> Len(c.str) * FontWidth * FontHeight

fb_clear(m, c, i) ==
  [m EXCEPT ![(i \div fb_width) * fb_pitch + 4 * (i % fb_width)] = c.color]

fb_fill_rect(m, c, i) ==
  fb_put_pixel(m, (c.x + (i % c.w)) % Word, (c.y + i \div c.w) % Word, c.color)

fb_draw_string(m, c, i) ==
  LET n   == i \div (FontWidth * FontHeight)
      j   == i % (FontWidth * FontHeight)
      col == j % FontWidth
      row == j \div FontWidth
  IN  fb_put_pixel(m, (c.x + n * FontWidth + col) % Word, (c.y + row) % Word,
                   IF GlyphBit(c.str[n + 1], col, row) THEN c.color ELSE c.bg)

Store(m, c, i) == CASE c.kind = "clear"  -> fb_clear(m, c, i)
                    [] c.kind = "rect"   -> fb_fill_rect(m, c, i)
                    [] c.kind = "pixel"  -> fb_put_pixel(m, c.x, c.y, c.color)
                    [] c.kind = "string" -> fb_draw_string(m, c, i)

-----------------------------------------------------------------------------
\* What a call is meant to draw: the part of its rectangle that is on the screen.
Screen == (0..fb_width - 1) \X (0..fb_height - 1)
Area(c) == IF c = NoCall THEN {}
           ELSE {p \in Screen : p[1] >= c.x /\ p[1] < Right(c)
                                /\ p[2] >= c.y /\ p[2] < Bottom(c)}

Meant(c, p) ==
  IF c.kind = "string"
  THEN LET n == (p[1] - c.x) \div FontWidth
       IN  IF <<(p[1] - c.x) % FontWidth, p[2] - c.y>> \in Glyphs[c.str[n + 1]]
           THEN c.color ELSE c.bg
  ELSE c.color

Overlap(c, d) == Area(c) \cap Area(d) # {}

-----------------------------------------------------------------------------
Begin(p) ==
  /\ drawing[p] = NoCall
  /\ \E c \in Calls[p] :
       /\ drawing' = [drawing EXCEPT ![p] = c]
       /\ alone' = [q \in Painters |->
            IF q = p THEN IF \E r \in Painters : Overlap(drawing[r], c) THEN NoCall ELSE c
                     ELSE IF Overlap(alone[q], c) THEN NoCall ELSE alone[q]]
  /\ step' = [step EXCEPT ![p] = 0]
  /\ UNCHANGED memory

Draw(p) ==
  /\ drawing[p] # NoCall /\ step[p] < Stores(drawing[p])
  /\ memory' = Store(memory, drawing[p], step[p])
  /\ step' = [step EXCEPT ![p] = @ + 1]
  /\ UNCHANGED <<drawing, alone>>

Finish(p) ==
  /\ drawing[p] # NoCall /\ step[p] = Stores(drawing[p])
  /\ drawing' = [drawing EXCEPT ![p] = NoCall]
  /\ step' = [step EXCEPT ![p] = 0]
  /\ UNCHANGED <<memory, alone>>

GraphicsInit ==
  /\ memory = [a \in Addresses |-> Blank]
  /\ drawing = [p \in Painters |-> NoCall]
  /\ step = [p \in Painters |-> 0]
  /\ alone = [p \in Painters |-> NoCall]

GraphicsNext == \E p \in Painters : Begin(p) \/ Draw(p) \/ Finish(p)

GraphicsSpec == GraphicsInit /\ [][GraphicsNext]_graphicsVars

-----------------------------------------------------------------------------
Address(p) == p[2] * fb_pitch + p[1] * 4
PixelAt(p) == memory[Address(p)]

AreasShown ==
  \A p \in Painters : drawing[p] = NoCall =>
    \A x \in Area(alone[p]) : PixelAt(x) = Meant(alone[p], x)

OffScreen == Addresses \ {Address(p) : p \in Screen}
OffScreenUntouched == \A a \in OffScreen : memory[a] = Blank

\* A finished call shows what it was meant to, clipped to the screen, until a
\* call that overlaps it begins: processes that draw at the same time in
\* different places do not disturb each other (framebuffer.c:29-39,
\* font_renderer.c:22-51), and a call that hangs over the right or lower edge
\* neither comes out on the next line nor writes behind the lines or the screen.
DrawnExactly == AreasShown /\ OffScreenUntouched
=============================================================================
