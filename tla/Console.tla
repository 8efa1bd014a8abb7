------------------------------ MODULE Console ------------------------------
(***************************************************************************)
(* src/kernel/fb.c: text on the framebuffer the boot loader gave, if any.  *)
(* Coordinates are pixels, the framebuffer an array of 32-bit words.       *)
(* Glyphs are left out: what matters of a character is where it is drawn.  *)
(***************************************************************************)
EXTENDS Integers

CONSTANTS
  fb_char_width, fb_char_height,
  Screens,   \* the framebuffers considered: width, height, words per line
  Colors     \* background colours, 0 among them

ASSUME ConsoleAssumption ==
  /\ {fb_char_width, fb_char_height} \subseteq Nat \ {0}
  /\ \A s \in Screens : {s.width, s.height, s.pitch} \subseteq Nat /\ s.pitch >= s.width
  /\ 0 \in Colors

VARIABLES
  fb,         \* fb_width, fb_height and fb_pitch / 4; zeros before fb_init
  ready,      \* fb_ptr is set
  cursor_x, cursor_y,
  bg_color,   \* fg_color is set, saved and restored along with it
  old_bg,     \* what fb_puts_color will restore; -1 outside it
  wrote,      \* history: the words written by the last step
  last        \* history: where the last glyph was drawn since a clear or \r

consoleVars == <<fb, ready, cursor_x, cursor_y, bg_color, old_bg, wrote, last>>

NoScreen == [width |-> 0, height |-> 0, pitch |-> 0]
Nowhere  == <<-1, -1>>

(* The console before fb_init, and for good if there is no framebuffer. *)
ConsoleInit ==
  /\ fb = NoScreen /\ ready = FALSE
  /\ cursor_x = 0 /\ cursor_y = 0
  /\ bg_color = 0 /\ old_bg = -1
  /\ wrote = {} /\ last = Nowhere

FbInit(s) ==
  /\ ~ready
  /\ fb' = s /\ ready' = TRUE
  /\ wrote' = {}
  /\ UNCHANGED <<cursor_x, cursor_y, bg_color, old_bg, last>>

WordAt(x, y) == y * fb.pitch + x

Screen == {WordAt(x, y) : x \in 0 .. fb.width - 1, y \in 0 .. fb.height - 1}

FbClear ==
  /\ wrote' = Screen
  /\ cursor_x' = 0 /\ cursor_y' = 0
  /\ last' = Nowhere
  /\ UNCHANGED <<fb, ready, bg_color, old_bg>>

(* The test of draw_pixel. *)
OnScreen(x, y) == x \in 0 .. fb.width - 1 /\ y \in 0 .. fb.height - 1

(* The words draw_char writes. *)
Glyph(x, y) ==
  {WordAt(p[1], p[2]) : p \in {q \in (x .. x + fb_char_width - 1) \X (y .. y + fb_char_height - 1) :
                                 OnScreen(q[1], q[2])}}

Wraps(x) == x + fb_char_width > fb.width

(* Mutant of LineAfter: wraps to the start of the same line. *)
LineAfter_Same(x, y) == y

(* The line of the cursor once it was moved to x. *)
LineAfter(x, y) == IF Wraps(x) THEN y + fb_char_height ELSE y

(* The end of fb_putchar: the cursor was moved to x, y and the words drawn *)
(* were written; it wraps to the next line, and from below the last line   *)
(* to a clear screen.                                                      *)
MoveCursor(x, y, drawn, at) ==
  /\ IF LineAfter(x, y) + fb_char_height > fb.height
     THEN /\ cursor_x' = 0 /\ cursor_y' = 0
          /\ wrote' = drawn \cup Screen
          /\ last' = Nowhere
     ELSE /\ cursor_x' = IF Wraps(x) THEN 0 ELSE x
          /\ cursor_y' = LineAfter(x, y)
          /\ wrote' = drawn
          /\ last' = at
  /\ UNCHANGED <<fb, ready, bg_color, old_bg>>

PutNewline == MoveCursor(0, cursor_y + fb_char_height, {}, last)

PutReturn == MoveCursor(0, cursor_y, {}, Nowhere)

TabStop == fb_char_width * 4

PutTab == MoveCursor((cursor_x \div TabStop + 1) * TabStop, cursor_y, {}, last)

PutGlyph ==
  MoveCursor(cursor_x + fb_char_width, cursor_y, Glyph(cursor_x, cursor_y), <<cursor_x, cursor_y>>)

(* fb_puts_color around the characters it puts. *)
PutsColorBegins(bg) ==
  /\ old_bg = -1
  /\ old_bg' = bg_color /\ bg_color' = bg
  /\ wrote' = {}
  /\ UNCHANGED <<fb, ready, cursor_x, cursor_y, last>>

PutsColorEnds ==
  /\ old_bg # -1
  /\ bg_color' = old_bg /\ old_bg' = -1
  /\ wrote' = {}
  /\ UNCHANGED <<fb, ready, cursor_x, cursor_y, last>>

ConsoleNext ==
  \/ \E s \in Screens : FbInit(s)
  \/ (old_bg = -1 /\ FbClear)
  \/ PutNewline \/ PutReturn \/ PutTab \/ PutGlyph
  \/ \E bg \in Colors : PutsColorBegins(bg)
  \/ PutsColorEnds

----------------------------------------------------------------------------
(* Nothing is written outside the framebuffer, whatever its size and       *)
(* however much is printed, and nothing at all before fb_init.             *)
WritesInside == wrote \subseteq 0 .. fb.height * fb.pitch - 1 /\ (~ready => wrote = {})

(* There is always room for the next glyph where the cursor stands, on     *)
(* every screen a glyph fits on, so that no character is cut or lost.      *)
NextCharVisible ==
  fb.width >= fb_char_width /\ fb.height >= fb_char_height =>
    cursor_x + fb_char_width <= fb.width /\ cursor_y + fb_char_height <= fb.height

(* Glyphs do not overlap: until a clear or a carriage return the cursor    *)
(* stands behind or below the last glyph, through wraps, tabs and newlines.*)
GlyphsApart ==
  last # Nowhere =>
    \/ cursor_y >= last[2] + fb_char_height
    \/ cursor_y = last[2] /\ cursor_x >= last[1] + fb_char_width

(* What is printed can be read: all of it inside the framebuffer, no       *)
(* character cut, lost or drawn over another.                              *)
TextLegible == WritesInside /\ NextCharVisible /\ GlyphsApart

=============================================================================
