--------------------------- MODULE DevicesProofs ---------------------------
(***************************************************************************)
(* Proofs about the devices: the keyboard's ring is a bounded queue, what  *)
(* the console prints stays legible, and an interrupt is seen rightly by   *)
(* its handler and not at all by the tasks.  The invariant is one per      *)
(* part; the parts share no variable.                                      *)
(***************************************************************************)
EXTENDS Devices, SequenceTheorems, TLAPS

(* Append and Tail, cell by cell. *)
LEMMA IsAppend ==
  ASSUME NEW S, NEW s \in Seq(S), NEW e \in S, NEW t \in Seq(S),
         Len(t) = Len(s) + 1, \A n \in 1 .. Len(s) : t[n] = s[n], t[Len(s) + 1] = e
  PROVE  t = Append(s, e)
<1>1. /\ Append(s, e) \in Seq(S) /\ Len(Append(s, e)) = Len(s) + 1 /\ Len(s) \in Nat
      /\ \A n \in 1 .. Len(s) : Append(s, e)[n] = s[n]
      /\ Append(s, e)[Len(s) + 1] = e
  BY AppendProperties, LenProperties
<1>2. \A n \in 1 .. Len(t) : t[n] = Append(s, e)[n]
  BY <1>1
<1> QED
  BY <1>1, <1>2, SeqEqual

LEMMA IsTail ==
  ASSUME NEW S, NEW s \in Seq(S), s # <<>>, NEW t \in Seq(S),
         Len(t) = Len(s) - 1, \A n \in 1 .. Len(t) : t[n] = s[n + 1]
  PROVE  t = Tail(s)
<1>1. /\ Tail(s) \in Seq(S) /\ Len(Tail(s)) = Len(s) - 1
      /\ \A n \in 1 .. Len(Tail(s)) : Tail(s)[n] = s[n + 1]
  BY HeadTailProperties
<1> QED
  BY <1>1, SeqEqual

----------------------------------------------------------------------------
(* The keyboard *)

(* The reader is past its test only while a character waits, and what it   *)
(* has loaded is still in its slot: the handler never writes there.        *)
KeyboardInv ==
  /\ kb_buffer \in [Slot -> Char \cup {0}]
  /\ kb_head \in Slot /\ kb_tail \in Slot
  /\ pc \in {"load", "advance"} => kb_head # kb_tail
  /\ pc = "advance" => c = kb_buffer[kb_tail]

(* The queue the ring stands for. *)
Place(n) == (kb_tail + n - 1) % KB_BUFFER_SIZE
Contents == [n \in 1 .. Waiting |-> kb_buffer[Place(n)]]

(* What % does to a number that is off by at most one turn of the ring.    *)
LEMMA Turn ==
  ASSUME NEW x \in Int, x >= -KB_BUFFER_SIZE, x < KB_BUFFER_SIZE + KB_BUFFER_SIZE
  PROVE  x % KB_BUFFER_SIZE = IF x < 0 THEN x + KB_BUFFER_SIZE
                              ELSE IF x < KB_BUFFER_SIZE THEN x ELSE x - KB_BUFFER_SIZE
  BY KeyboardAssumption

LEMMA KeyboardInvInit == KeyboardInit => KeyboardInv /\ Queue!Init
<1> SUFFICES ASSUME KeyboardInit PROVE KeyboardInv /\ Queue!Init
  OBVIOUS
<1>1. KeyboardInv
  BY KeyboardAssumption DEF KeyboardInit, KeyboardInv, Slot
<1>2. Waiting = 0
  BY KeyboardAssumption, Turn DEF KeyboardInit, Waiting
<1> QED
  BY <1>1, <1>2 DEF KeyboardInit, Queue!Init

(* The distance between two slots, the slot after one and the n-th from it. *)
LEMMA RingArith ==
  ASSUME NEW h \in Slot, NEW t \in Slot
  PROVE  /\ KB_BUFFER_SIZE \in Nat /\ KB_BUFFER_SIZE > 1
         /\ h \in 0 .. KB_BUFFER_SIZE - 1
         /\ (h - t) % KB_BUFFER_SIZE = IF h < t THEN h - t + KB_BUFFER_SIZE ELSE h - t
         /\ After(h) = IF h + 1 < KB_BUFFER_SIZE THEN h + 1 ELSE 0
         /\ After(h) \in Slot
         /\ \A n \in 1 .. KB_BUFFER_SIZE :
              (h + n - 1) % KB_BUFFER_SIZE = IF h + n - 1 < KB_BUFFER_SIZE THEN h + n - 1
                                             ELSE h + n - 1 - KB_BUFFER_SIZE
<1>1. KB_BUFFER_SIZE \in Nat /\ KB_BUFFER_SIZE > 1
  BY KeyboardAssumption
<1>2. h \in 0 .. KB_BUFFER_SIZE - 1 /\ t \in 0 .. KB_BUFFER_SIZE - 1
  BY DEF Slot
<1>3. (h - t) % KB_BUFFER_SIZE = IF h < t THEN h - t + KB_BUFFER_SIZE ELSE h - t
  BY <1>1, <1>2, Turn
<1>4. After(h) = IF h + 1 < KB_BUFFER_SIZE THEN h + 1 ELSE 0
  BY <1>1, <1>2, Turn DEF After
<1>5. \A n \in 1 .. KB_BUFFER_SIZE :
        (h + n - 1) % KB_BUFFER_SIZE = IF h + n - 1 < KB_BUFFER_SIZE THEN h + n - 1
                                       ELSE h + n - 1 - KB_BUFFER_SIZE
  BY <1>1, <1>2, Turn
<1> QED
  BY <1>1, <1>2, <1>3, <1>4, <1>5 DEF Slot

(* Where the characters are. *)
LEMMA RingShape ==
  ASSUME KeyboardInv
  PROVE  /\ Waiting = IF kb_head < kb_tail THEN kb_head - kb_tail + KB_BUFFER_SIZE
                      ELSE kb_head - kb_tail
         /\ Waiting \in 0 .. KB_BUFFER_SIZE - 1
         /\ \A n \in 1 .. Waiting : Place(n) \in Slot /\ Place(n) # kb_head
         /\ Place(Waiting + 1) = kb_head
         /\ Contents \in Seq(Char \cup {0}) /\ Len(Contents) = Waiting
<1> DEFINE K == KB_BUFFER_SIZE
<1>1. /\ K \in Nat /\ K > 1 /\ kb_head \in 0 .. K - 1 /\ kb_tail \in 0 .. K - 1
      /\ Waiting = IF kb_head < kb_tail THEN kb_head - kb_tail + K ELSE kb_head - kb_tail
      /\ \A n \in 1 .. K : Place(n) = IF kb_tail + n - 1 < K THEN kb_tail + n - 1
                                      ELSE kb_tail + n - 1 - K
  BY RingArith DEF KeyboardInv, Waiting, Place
<1>2. Waiting \in 0 .. K - 1
  BY <1>1
<1>3. \A n \in 1 .. Waiting : Place(n) \in Slot /\ Place(n) # kb_head
  BY <1>1, <1>2 DEF Slot
<1>4. Contents \in Seq(Char \cup {0}) /\ Len(Contents) = Waiting
  <2>1. \A n \in 1 .. Waiting : kb_buffer[Place(n)] \in Char \cup {0}
    BY <1>3 DEF KeyboardInv
  <2> QED
    BY <2>1, <1>2 DEF Contents
<1> QED
  BY <1>1, <1>2, <1>3, <1>4

(* kb_push on a ring that is not full appends. *)
LEMMA PushAppends ==
  ASSUME KeyboardInv, NEW ch \in Char, After(kb_head) # kb_tail,
         kb_buffer' = [kb_buffer EXCEPT ![kb_head] = ch], kb_head' = After(kb_head), kb_tail' = kb_tail
  PROVE  /\ Contents' = Append(Contents, ch)
         /\ Len(Contents) < KB_BUFFER_SIZE - 1
<1>1. /\ kb_head \in Slot /\ kb_tail \in Slot /\ After(kb_head) \in Slot
      /\ kb_head \in Nat /\ kb_tail \in Nat /\ KB_BUFFER_SIZE \in Nat
      /\ kb_head < KB_BUFFER_SIZE /\ kb_tail < KB_BUFFER_SIZE
      /\ After(kb_head) = IF kb_head + 1 < KB_BUFFER_SIZE THEN kb_head + 1 ELSE 0
  <2>1. kb_head \in Slot /\ kb_tail \in Slot
    BY DEF KeyboardInv
  <2>2. /\ KB_BUFFER_SIZE \in Nat /\ kb_head \in 0 .. KB_BUFFER_SIZE - 1
        /\ kb_tail \in 0 .. KB_BUFFER_SIZE - 1
    BY <2>1, RingArith
  <2>3. /\ After(kb_head) = IF kb_head + 1 < KB_BUFFER_SIZE THEN kb_head + 1 ELSE 0
        /\ After(kb_head) \in Slot
    BY <2>1, RingArith
  <2> QED
    BY <2>1, <2>2, <2>3
<1>2. Waiting' = Waiting + 1 /\ Waiting < KB_BUFFER_SIZE - 1
  <2>1. Waiting' = (After(kb_head) - kb_tail) % KB_BUFFER_SIZE
    BY DEF Waiting
  <2>2. Waiting' = IF After(kb_head) < kb_tail THEN After(kb_head) - kb_tail + KB_BUFFER_SIZE
                   ELSE After(kb_head) - kb_tail
    BY <1>1, <2>1, RingArith
  <2> QED
    BY <1>1, <2>2, RingShape
<1>3. \A n \in 1 .. Waiting + 1 : Contents'[n] = kb_buffer'[Place(n)]
  BY <1>2 DEF Contents, Place
<1>4. \A n \in 1 .. Waiting : Contents'[n] = Contents[n]
  <2>1. \A n \in 1 .. Waiting : kb_buffer'[Place(n)] = kb_buffer[Place(n)]
    BY RingShape DEF KeyboardInv
  <2> QED
    BY <1>3, <2>1, RingShape DEF Contents
<1>5. Contents'[Waiting + 1] = ch
  BY <1>1, <1>3, RingShape DEF KeyboardInv
<1>6. Contents' \in Seq(Char \cup {0}) /\ Len(Contents') = Waiting + 1
  <2>1. \A n \in 1 .. Waiting + 1 : Contents'[n] \in Char \cup {0}
    BY <1>4, <1>5, RingShape
  <2>2. Contents' = [n \in 1 .. Waiting + 1 |-> Contents'[n]]
    BY <1>2 DEF Contents
  <2> QED
    BY <2>1, <2>2, RingShape
<1> QED
  BY <1>2, <1>4, <1>5, <1>6, RingShape, IsAppend

(* The step of the reader over kb_tail takes the head of the queue. *)
LEMMA AdvanceTakes ==
  ASSUME KeyboardInv, kb_head # kb_tail,
         kb_tail' = After(kb_tail), UNCHANGED ringVars
  PROVE  /\ Contents # <<>>
         /\ Contents' = Tail(Contents)
         /\ Head(Contents) = kb_buffer[kb_tail]
<1>1. /\ kb_head \in Slot /\ kb_tail \in Slot /\ After(kb_tail) \in Slot
      /\ kb_head \in Nat /\ kb_tail \in Nat /\ KB_BUFFER_SIZE \in Nat
      /\ kb_head < KB_BUFFER_SIZE /\ kb_tail < KB_BUFFER_SIZE
      /\ After(kb_tail) = IF kb_tail + 1 < KB_BUFFER_SIZE THEN kb_tail + 1 ELSE 0
  <2>1. kb_head \in Slot /\ kb_tail \in Slot
    BY DEF KeyboardInv
  <2>2. /\ KB_BUFFER_SIZE \in Nat /\ kb_head \in 0 .. KB_BUFFER_SIZE - 1
        /\ kb_tail \in 0 .. KB_BUFFER_SIZE - 1
    BY <2>1, RingArith
  <2>3. /\ After(kb_tail) = IF kb_tail + 1 < KB_BUFFER_SIZE THEN kb_tail + 1 ELSE 0
        /\ After(kb_tail) \in Slot
    BY <2>1, RingArith
  <2> QED
    BY <2>1, <2>2, <2>3
<1>2. Waiting \in 1 .. KB_BUFFER_SIZE - 1 /\ Contents # <<>>
  <2>1. Waiting # 0
    BY <1>1, RingShape
  <2> QED
    BY <2>1, RingShape
<1>3. Waiting' = Waiting - 1
  <2>1. Waiting' = (kb_head - After(kb_tail)) % KB_BUFFER_SIZE
    BY DEF Waiting, ringVars
  <2>2. Waiting' = IF kb_head < After(kb_tail) THEN kb_head - After(kb_tail) + KB_BUFFER_SIZE
                   ELSE kb_head - After(kb_tail)
    BY <1>1, <2>1, RingArith
  <2> QED
    BY <1>1, <2>2, RingShape
<1>4. \A n \in 1 .. Waiting - 1 : Place(n)' = Place(n + 1)
  <2> TAKE n \in 1 .. Waiting - 1
  <2>1. Place(n)' = (After(kb_tail) + n - 1) % KB_BUFFER_SIZE
    BY DEF Place
  <2>2. n \in 1 .. KB_BUFFER_SIZE /\ n + 1 \in 1 .. KB_BUFFER_SIZE
    BY <1>1, <1>2
  <2>3. Place(n)' = IF After(kb_tail) + n - 1 < KB_BUFFER_SIZE THEN After(kb_tail) + n - 1
                    ELSE After(kb_tail) + n - 1 - KB_BUFFER_SIZE
    BY <1>1, <2>1, <2>2, RingArith
  <2>4. Place(n + 1) = (kb_tail + (n + 1) - 1) % KB_BUFFER_SIZE
    BY DEF Place
  <2>5. Place(n + 1) = IF kb_tail + (n + 1) - 1 < KB_BUFFER_SIZE THEN kb_tail + (n + 1) - 1
                       ELSE kb_tail + (n + 1) - 1 - KB_BUFFER_SIZE
    BY <1>1, <2>2, <2>4, RingArith
  <2> QED
    BY <1>1, <2>2, <2>3, <2>5
<1>5. \A n \in 1 .. Waiting - 1 : Contents'[n] = Contents[n + 1]
  <2>1. \A n \in 1 .. Waiting - 1 : Contents'[n] = kb_buffer[Place(n + 1)]
    BY <1>3, <1>4 DEF Contents, ringVars
  <2> QED
    BY <1>2, <2>1 DEF Contents
<1>6. Contents' \in Seq(Char \cup {0}) /\ Len(Contents') = Waiting - 1
  <2>1. \A n \in 1 .. Waiting - 1 : Contents'[n] \in Char \cup {0}
    BY <1>2, <1>5, RingShape
  <2>2. Contents' = [n \in 1 .. Waiting - 1 |-> Contents'[n]]
    BY <1>3 DEF Contents
  <2> QED
    BY <1>2, <2>1, <2>2
<1>7. Head(Contents) = kb_buffer[kb_tail]
  <2>1. Place(1) = kb_tail
    <3>1. kb_tail + 1 - 1 = kb_tail /\ 1 \in 1 .. KB_BUFFER_SIZE
      BY <1>1
    <3> QED
      BY <1>1, <3>1, RingArith DEF Place
  <2>2. Head(Contents) = Contents[1]
    BY <1>2, RingShape
  <2> QED
    BY <1>2, <2>1, <2>2 DEF Contents
<1> QED
  BY <1>2, <1>5, <1>6, <1>7, RingShape, IsTail

(* Every step of the keyboard keeps the invariant and is one of the queue. *)
LEMMA KeyboardStep ==
  KeyboardInv /\ [KeyboardNext]_keyboardVars => KeyboardInv' /\ [Queue!Next]_(Queue!vars)
<1> SUFFICES ASSUME KeyboardInv, [KeyboardNext]_keyboardVars
             PROVE  KeyboardInv' /\ [Queue!Next]_(Queue!vars)
  OBVIOUS
<1> USE DEF Contents, Place
<1>1. ASSUME UNCHANGED <<ringVars, kb_tail, out>>, Wake \/ UNCHANGED <<pc, c>>, c' = c
      PROVE  KeyboardInv' /\ [Queue!Next]_(Queue!vars)
  <2>1. KeyboardInv'
    BY <1>1 DEF KeyboardInv, Wake, ringVars
  <2>2. UNCHANGED Queue!vars
    BY <1>1 DEF Queue!vars, Waiting, ringVars
  <2> QED
    BY <2>1, <2>2
<1>2. ASSUME NEW k \in Keys, KeyPressed(k)
      PROVE  KeyboardInv' /\ [Queue!Next]_(Queue!vars)
  <2> DEFINE ch == IF shift_pressed THEN scancode_shift_table[k] ELSE scancode_table[k]
  <2>1. CASE UNCHANGED ringVars
    BY <1>1, <1>2, <2>1 DEF KeyPressed
  <2>2. CASE ch # 0 /\ After(kb_head) # kb_tail
    <3>1. ch \in Char
      BY <2>2 DEF Char
    <3>2. /\ kb_buffer' = [kb_buffer EXCEPT ![kb_head] = ch]
          /\ kb_head' = After(kb_head) /\ kb_tail' = kb_tail /\ out' = out /\ c' = c /\ Wake
          /\ dropped' = dropped
      BY <1>2, <2>2 DEF KeyPressed, KbPush
    <3>3. Contents' = Append(Contents, ch) /\ Len(Contents) < KB_BUFFER_SIZE - 1
      BY <2>2, <3>1, <3>2, PushAppends
    <3>4. Queue!Next
      BY <3>1, <3>2, <3>3 DEF Queue!Next, Queue!Put
    <3>5. kb_head \in Slot /\ After(kb_head) \in Slot
      BY RingArith DEF KeyboardInv
    <3>6. KeyboardInv'
      BY <2>2, <3>1, <3>2, <3>5 DEF KeyboardInv, Wake
    <3> QED
      BY <3>4, <3>6
  <2>3. CASE ch # 0 /\ After(kb_head) = kb_tail
    <3>1. /\ dropped' = ~dropped /\ Wake
          /\ UNCHANGED <<kb_buffer, kb_head, kb_tail, out, c>>
      BY <1>2, <2>3 DEF KeyPressed, KbPush
    <3>2. Waiting = KB_BUFFER_SIZE - 1
      <4> DEFINE K == KB_BUFFER_SIZE
      <4>1. K \in Nat /\ K > 1 /\ kb_head \in 0 .. K - 1
            /\ kb_tail = IF kb_head + 1 < K THEN kb_head + 1 ELSE 0
        BY <2>3, RingArith DEF KeyboardInv
      <4>2. Waiting = IF kb_head < kb_tail THEN kb_head - kb_tail + K ELSE kb_head - kb_tail
        BY RingShape
      <4> QED
        BY <4>1, <4>2
    <3>3. Len(Contents) = KB_BUFFER_SIZE - 1
      BY <3>2, RingShape
    <3>4. UNCHANGED Contents
      BY <3>1 DEF Waiting
    <3>5. Queue!Next
      BY <3>1, <3>3, <3>4 DEF Queue!Next, Queue!Drop
    <3>6. KeyboardInv'
      BY <3>1 DEF KeyboardInv, Wake
    <3> QED
      BY <3>5, <3>6
  <2> QED
    BY <1>2, <2>1, <2>2, <2>3 DEF KeyPressed, KbPush
<1>3. ASSUME NEW s \in Shift, ShiftPressed(s) \/ ShiftReleased(s)
      PROVE  KeyboardInv' /\ [Queue!Next]_(Queue!vars)
  BY <1>1, <1>3 DEF ShiftPressed, ShiftReleased
<1>4. CASE OtherInterrupt
  BY <1>1, <1>4 DEF OtherInterrupt
<1>5. CASE SeeNone \/ Halt \/ SeeChar \/ Load
  <2>1. UNCHANGED Queue!vars
    BY <1>5 DEF SeeNone, Halt, SeeChar, Load, Queue!vars, Waiting, ringVars
  <2>2. KeyboardInv'
    BY <1>5 DEF SeeNone, Halt, SeeChar, Load, KeyboardInv, ringVars
  <2> QED
    BY <2>1, <2>2
<1>6. CASE Advance
  <2>1. kb_head # kb_tail /\ c = kb_buffer[kb_tail]
    BY <1>6 DEF Advance, KeyboardInv
  <2>2. Queue!Next
    BY <1>6, <2>1, AdvanceTakes DEF Advance, ringVars, Queue!Next, Queue!Take
  <2>3. After(kb_tail) \in Slot
    BY RingArith DEF KeyboardInv
  <2>4. KeyboardInv'
    BY <1>6, <2>3 DEF Advance, KeyboardInv, ringVars
  <2> QED
    BY <2>2, <2>4
<1>7. CASE UNCHANGED keyboardVars
  BY <1>1, <1>7 DEF keyboardVars, readVars
<1> QED
  BY <1>2, <1>3, <1>4, <1>5, <1>6, <1>7 DEF KeyboardNext, Reader

----------------------------------------------------------------------------
(* The console *)

(* Before fb_init the cursor cannot leave the corner of a screen without   *)
(* lines, so that the first glyph after it has room.                       *)
ConsoleInv ==
  /\ fb \in Screens \cup {NoScreen}
  /\ cursor_x \in Nat /\ cursor_y \in Nat
  /\ last \in (Nat \X Nat) \cup {Nowhere}
  /\ ~ready => fb = NoScreen /\ cursor_x = 0 /\ cursor_y = 0 /\ last = Nowhere
  /\ TextLegible

LEMMA ScreenSize ==
  ASSUME fb \in Screens \cup {NoScreen}
  PROVE  fb.width \in Nat /\ fb.height \in Nat /\ fb.pitch \in Nat /\ fb.pitch >= fb.width
  BY ConsoleAssumption DEF NoScreen

LEMMA GlyphSize == fb_char_width \in Nat \ {0} /\ fb_char_height \in Nat \ {0}
  BY ConsoleAssumption

(* A pixel on the screen is a word of the framebuffer. *)
LEMMA WordInside ==
  ASSUME NEW w \in Nat, NEW h \in Nat, NEW p \in Nat, p >= w,
         NEW x \in 0 .. w - 1, NEW y \in 0 .. h - 1
  PROVE  y * p + x \in 0 .. h * p - 1
<1>1. y * p \in Nat /\ h * p \in Nat /\ (h - 1) * p = h * p - p
  OBVIOUS
<1>2. y * p <= (h - 1) * p
  OBVIOUS
<1> QED
  BY <1>1, <1>2

LEMMA ScreenInside ==
  ASSUME fb \in Screens \cup {NoScreen}
  PROVE  /\ Screen \subseteq 0 .. fb.height * fb.pitch - 1
         /\ \A x, y \in Nat : Glyph(x, y) \subseteq Screen
         /\ fb = NoScreen => Screen = {}
<1>1. Screen \subseteq 0 .. fb.height * fb.pitch - 1
  BY ScreenSize, WordInside DEF Screen, WordAt
<1>2. \A x, y \in Nat : Glyph(x, y) \subseteq Screen
  BY DEF Glyph, Screen, OnScreen
<1>3. fb = NoScreen => Screen = {}
  BY DEF Screen, NoScreen
<1> QED
  BY <1>1, <1>2, <1>3

LEMMA ConsoleInvInit == ConsoleInit => ConsoleInv
  BY GlyphSize DEF ConsoleInit, ConsoleInv, TextLegible, WritesInside, NextCharVisible, GlyphsApart, NoScreen,
     Nowhere

(* Moving the cursor on, in the same line or to a lower one, keeps the     *)
(* text legible.                                                           *)
LEMMA MoveKeeps ==
  ASSUME ConsoleInv, NEW x \in Nat, NEW y \in Nat, NEW drawn, NEW at \in (Nat \X Nat) \cup {Nowhere},
         MoveCursor(x, y, drawn, at), drawn \subseteq Screen,
         ~ready => at = Nowhere,
         at # Nowhere => y >= at[2] + fb_char_height \/ (y = at[2] /\ x >= at[1] + fb_char_width)
  PROVE  ConsoleInv'
<1>0. fb \in Screens \cup {NoScreen} /\ fb' = fb /\ ready' = ready
  BY DEF ConsoleInv, MoveCursor
<1>1. cursor_x' \in Nat /\ cursor_y' \in Nat /\ last' \in (Nat \X Nat) \cup {Nowhere}
  BY GlyphSize DEF MoveCursor, LineAfter
<1>2. wrote' \subseteq Screen
  BY DEF MoveCursor
<1>3. WritesInside'
  BY <1>0, <1>2, ScreenInside DEF ConsoleInv, WritesInside
<1>4. NextCharVisible'
  BY <1>0, GlyphSize, ScreenSize DEF MoveCursor, LineAfter, Wraps, NextCharVisible
<1>5. GlyphsApart'
  <2>1. CASE last' = Nowhere
    BY <2>1 DEF GlyphsApart
  <2>2. CASE last' # Nowhere
    <3>1. /\ last' = at /\ at \in Nat \X Nat
          /\ cursor_x' = IF Wraps(x) THEN 0 ELSE x
          /\ cursor_y' = IF Wraps(x) THEN y + fb_char_height ELSE y
      BY <2>2 DEF MoveCursor, LineAfter
    <3>2. at[1] \in Nat /\ at[2] \in Nat
      BY <3>1
    <3> QED
      BY <2>2, <3>1, <3>2, GlyphSize DEF GlyphsApart
  <2> QED
    BY <2>1, <2>2
<1>6. ~ready' => fb' = NoScreen /\ cursor_x' = 0 /\ cursor_y' = 0 /\ last' = Nowhere
  <2> SUFFICES ASSUME ~ready PROVE fb = NoScreen /\ cursor_x' = 0 /\ cursor_y' = 0 /\ last' = Nowhere
    BY <1>0
  <2>1. fb = NoScreen /\ fb.height = 0
    BY DEF ConsoleInv, NoScreen
  <2>2. LineAfter(x, y) + fb_char_height > 0
    BY GlyphSize DEF LineAfter
  <2> QED
    BY <2>1, <2>2 DEF MoveCursor
<1> QED
  BY <1>0, <1>1, <1>3, <1>4, <1>5, <1>6 DEF ConsoleInv, TextLegible

(* The next tab stop is behind the cursor. *)
LEMMA TabMovesOn ==
  ASSUME NEW x \in Nat
  PROVE  /\ (x \div TabStop + 1) * TabStop \in Nat
         /\ (x \div TabStop + 1) * TabStop >= x
<1>1. TabStop \in Nat \ {0}
  BY GlyphSize DEF TabStop
<1>2. ASSUME NEW t \in Nat \ {0} PROVE (x \div t + 1) * t \in Nat /\ (x \div t + 1) * t >= x
  <2>1. x \div t \in Nat /\ x = t * (x \div t) + (x % t) /\ x % t \in 0 .. t - 1
    OBVIOUS
  <2>2. (x \div t + 1) * t = t * (x \div t) + t
    BY <2>1
  <2> QED
    BY <2>1, <2>2
<1> QED
  BY <1>1, <1>2

LEMMA ConsoleStep == ConsoleInv /\ [ConsoleNext]_consoleVars => ConsoleInv'
<1> SUFFICES ASSUME ConsoleInv, [ConsoleNext]_consoleVars PROVE ConsoleInv'
  OBVIOUS
<1>0. /\ cursor_x \in Nat /\ cursor_y \in Nat /\ last \in (Nat \X Nat) \cup {Nowhere}
      /\ fb \in Screens \cup {NoScreen} /\ GlyphsApart /\ (~ready => last = Nowhere)
      /\ ~ready => cursor_x = 0 /\ cursor_y = 0
  BY DEF ConsoleInv, TextLegible
<1>1. ASSUME NEW s \in Screens, FbInit(s) PROVE ConsoleInv'
  <2>1. s.height \in Nat /\ s.pitch \in Nat
    BY ConsoleAssumption
  <2> QED
    BY <1>0, <1>1, <2>1, GlyphSize
    DEF FbInit, ConsoleInv, TextLegible, WritesInside, NextCharVisible, GlyphsApart
<1>2. CASE FbClear
  BY <1>0, <1>2, ScreenInside, ScreenSize, GlyphSize
  DEF FbClear, ConsoleInv, TextLegible, WritesInside, NextCharVisible, GlyphsApart, Nowhere
<1>3. CASE PutNewline
  <2>1. cursor_y + fb_char_height \in Nat
    BY <1>0, GlyphSize
  <2>2. last # Nowhere => cursor_y + fb_char_height >= last[2] + fb_char_height
    BY <1>0, GlyphSize DEF GlyphsApart
  <2> QED
    BY <1>0, <1>3, <2>1, <2>2, MoveKeeps DEF PutNewline
<1>4. CASE PutReturn
  BY <1>0, <1>4, MoveKeeps DEF PutReturn
<1>5. CASE PutTab
  <2>1. /\ (cursor_x \div TabStop + 1) * TabStop \in Nat
        /\ (cursor_x \div TabStop + 1) * TabStop >= cursor_x
    BY <1>0, TabMovesOn
  <2>2. last # Nowhere => \/ cursor_y >= last[2] + fb_char_height
                          \/ /\ cursor_y = last[2]
                             /\ (cursor_x \div TabStop + 1) * TabStop >= last[1] + fb_char_width
    BY <1>0, <2>1, GlyphSize DEF GlyphsApart
  <2> QED
    BY <1>0, <1>5, <2>1, <2>2, MoveKeeps DEF PutTab
<1>6. CASE PutGlyph
  <2>1. Glyph(cursor_x, cursor_y) \subseteq Screen
    BY <1>0, ScreenInside
  <2>2. CASE ready
    <3>1. <<cursor_x, cursor_y>> \in Nat \X Nat /\ cursor_x + fb_char_width \in Nat
      BY <1>0, GlyphSize
    <3> QED
      BY <1>0, <1>6, <2>1, <2>2, <3>1, GlyphSize, MoveKeeps DEF PutGlyph
  <2>3. CASE ~ready
    <3>1. MoveCursor(cursor_x + fb_char_width, cursor_y, {}, Nowhere)
      <4>1. fb = NoScreen /\ fb.height = 0 /\ Glyph(cursor_x, cursor_y) = {}
        BY <1>0, <2>1, <2>3, ScreenInside DEF ConsoleInv, NoScreen
      <4>2. LineAfter(cursor_x + fb_char_width, cursor_y) + fb_char_height > 0
        BY <1>0, GlyphSize DEF LineAfter
      <4> QED
        BY <1>6, <4>1, <4>2 DEF PutGlyph, MoveCursor
    <3> QED
      BY <1>0, <3>1, GlyphSize, MoveKeeps
  <2> QED
    BY <2>2, <2>3
<1>7. ASSUME NEW bg \in Colors, PutsColorBegins(bg) PROVE ConsoleInv'
  BY <1>0, <1>7, ScreenSize
  DEF PutsColorBegins, ConsoleInv, TextLegible, WritesInside, NextCharVisible, GlyphsApart
<1>8. CASE PutsColorEnds
  BY <1>0, <1>8, ScreenSize
  DEF PutsColorEnds, ConsoleInv, TextLegible, WritesInside, NextCharVisible, GlyphsApart
<1>9. CASE UNCHANGED consoleVars
  BY <1>9 DEF consoleVars, ConsoleInv, TextLegible, WritesInside, NextCharVisible, GlyphsApart
<1> QED
  BY <1>1, <1>2, <1>3, <1>4, <1>5, <1>6, <1>7, <1>8, <1>9 DEF ConsoleNext

----------------------------------------------------------------------------
(* The interrupt frame *)

(* The words of a frame that hold a register; 16 and 17 are the number of  *)
(* the interrupt and the error code.                                       *)
FieldReg == (1 .. 15) \cup (18 .. 22)

(* A field has one place. *)
LEMMA FieldIndex ==
  /\ DOMAIN Fields = 1 .. 22 /\ Len(Fields) = 22
  /\ \A n \in 1 .. 22 : (CHOOSE m \in DOMAIN Fields : Fields[m] = Fields[n]) = n
<1>1. DOMAIN Fields = 1 .. 22 /\ Len(Fields) = 22
  BY DEF Fields
<1>2. \A m, n \in 1 .. 22 : Fields[m] = Fields[n] => m = n
  BY DEF Fields
<1> QED
  BY <1>1, <1>2

(* The registers are pushed in the order of the struct, last field first,  *)
(* and popped the other way round.                                         *)
LEMMA Orders ==
  /\ DOMAIN PushOrder = 1 .. 15 /\ Len(PushOrder) = 15
  /\ DOMAIN PopOrder = 1 .. 15 /\ Len(PopOrder) = 15
  /\ \A n \in 1 .. 15 : PushOrder[n] = Fields[16 - n] /\ PopOrder[n] = Fields[n]
  /\ \A n \in 1 .. 15 : (CHOOSE m \in DOMAIN PopOrder : PopOrder[m] = Fields[n]) = n
<1>1. /\ DOMAIN PushOrder = 1 .. 15 /\ Len(PushOrder) = 15
      /\ DOMAIN PopOrder = 1 .. 15 /\ Len(PopOrder) = 15
  BY DEF PushOrder, PopOrder
<1>2. \A n \in 1 .. 15 : PushOrder[n] = Fields[16 - n] /\ PopOrder[n] = Fields[n]
  BY DEF PushOrder, PopOrder, Fields
<1>3. \A m, n \in 1 .. 15 : Fields[m] = Fields[n] => m = n
  BY DEF Fields
<1>4. \A n \in 1 .. 15 : (CHOOSE m \in DOMAIN PopOrder : PopOrder[m] = Fields[n]) = n
  BY <1>1, <1>2, <1>3
<1> QED
  BY <1>1, <1>2, <1>4

LEMMA RegFields ==
  /\ \A n \in FieldReg : Fields[n] \in Reg
  /\ \A r \in Reg : \E n \in FieldReg : r = Fields[n]
  /\ \A n \in 1 .. 15 : Fields[n] \in Gpr
  /\ \A r \in Gpr : r \in Reg /\ \E n \in 1 .. 15 : r = Fields[n]
  /\ \A n \in 18 .. 22 : Fields[n] \notin Gpr
  /\ Fields[16] = "int_no" /\ Fields[17] = "error_code"
  /\ Fields[18] = "rip" /\ Fields[19] = "cs" /\ Fields[20] = "rflags" /\ Fields[21] = "rsp" /\ Fields[22] = "ss"
<1>1. /\ Fields[16] = "int_no" /\ Fields[17] = "error_code"
      /\ Fields[18] = "rip" /\ Fields[19] = "cs" /\ Fields[20] = "rflags" /\ Fields[21] = "rsp" /\ Fields[22] = "ss"
  BY DEF Fields
<1>2. Gpr = {Fields[n] : n \in 1 .. 15}
  <2>1. \A n \in 1 .. 15 : PushOrder[n] = Fields[16 - n] /\ 16 - n \in 1 .. 15
    BY Orders
  <2>2. \A n \in 1 .. 15 : Fields[n] = PushOrder[16 - n] /\ 16 - n \in 1 .. 15
    BY <2>1
  <2> QED
    BY <2>1, <2>2, Orders DEF Gpr
<1>3. \A n \in 18 .. 22 : Fields[n] \in {"rip", "cs", "rflags", "rsp", "ss"}
  BY <1>1
<1>4. \A r \in {"rip", "cs", "rflags", "rsp", "ss"} : \E n \in 18 .. 22 : r = Fields[n]
  BY <1>1
<1>5. \A n \in 18 .. 22, m \in 1 .. 15 : Fields[n] # Fields[m]
  BY DEF Fields
<1>6. \A n \in 18 .. 22 : Fields[n] \notin Gpr
  BY <1>2, <1>5
<1> QED
  BY <1>1, <1>2, <1>3, <1>4, <1>6 DEF Reg, FieldReg

Bottom(t) == t * STACK

(* A stack pointer of task t with room for a frame below it. *)
HasRoom(t, sp) == sp \in Int /\ Bottom(t) + 24 <= sp /\ sp <= StackTop(t)

(* A frame of task t at address a. *)
InStack(t, a) == a \in Int /\ Bottom(t) < a /\ a + 22 <= StackTop(t)

(* Words from to 22 of the frame at a are those of task t. *)
Holds22(t, a, from) == \A n \in FieldReg : n >= from => mem[a + n] = want[t][Fields[n]]

(* Resuming task t with rsp = a gives it back what it had. *)
Resumable(t, a) ==
  /\ HasRoom(t, want[t]["rsp"])
  /\ InStack(t, a)
  /\ Holds22(t, a, 1)

(* The frame being built for the current task. *)
FrameAt == Aligned(want[cur]["rsp"]) - 22

GprIntact == \A n \in 1 .. 15 : regs[Fields[n]] = want[cur][Fields[n]]

ErrorOf(v) == IF v \in PushesError THEN ErrorCode ELSE 0

Building ==
  /\ phase \in {"stub", "push", "handler"} => HasRoom(cur, want[cur]["rsp"])
  /\ phase = "stub" =>
       /\ GprIntact /\ Holds22(cur, FrameAt, 18)
       /\ regs["rsp"] = FrameAt + (IF vector \in PushesError THEN 16 ELSE 17)
       /\ vector \in PushesError => mem[FrameAt + 17] = ErrorCode
  /\ phase \in {"push", "handler"} =>
       mem[FrameAt + 16] = vector /\ mem[FrameAt + 17] = ErrorOf(vector)
  /\ phase = "push" =>
       GprIntact /\ Holds22(cur, FrameAt, 18) /\ regs["rsp"] = FrameAt + 15
  /\ phase = "handler" => Holds22(cur, FrameAt, 1) /\ regs["rsp"] = FrameAt
  /\ phase = "return" => Resumable(cur, regs["rsp"])

FrameType ==
  /\ regs \in [Reg -> Int] /\ mem \in [Addr -> Int]
  /\ tasks \in [Task -> Int] /\ cur \in Task
  /\ phase \in {"run", "stub", "push", "handler", "return", "halt"}
  /\ vector \in Vectors \cup {32}
  /\ gen \in [Task -> Nat]
  /\ want \in [Task -> [Reg -> Int]]

FrameInv ==
  /\ FrameType
  /\ \A t \in Task : t # cur /\ tasks[t] # 0 => Resumable(t, tasks[t])
  /\ phase = "run" => HasRoom(cur, regs["rsp"])
  /\ Building

----------------------------------------------------------------------------
(* The stacks lie one above the other. *)
LEMMA StackBounds ==
  ASSUME NEW t \in Task
  PROVE  /\ Bottom(t) \in Nat /\ StackTop(t) = Bottom(t) + STACK /\ STACK \in Nat /\ STACK >= 24
         /\ StackTop(t) <= MAX_TASKS * STACK /\ StackTop(t) \in Nat
         /\ \A a \in Int : Bottom(t) < a /\ a <= StackTop(t) => a \in Addr
         /\ Bottom(t) % 2 = 0 /\ StackTop(t) % 2 = 0
<1>1. STACK \in Nat /\ STACK >= 24 /\ MAX_TASKS \in Nat /\ t \in Nat /\ t + 1 <= MAX_TASKS /\ STACK % 2 = 0
  BY FrameAssumption DEF Task
<1>2. Bottom(t) \in Nat /\ StackTop(t) = Bottom(t) + STACK /\ StackTop(t) \in Nat
  BY <1>1 DEF Bottom, StackTop
<1>3. StackTop(t) <= MAX_TASKS * STACK
  BY <1>1 DEF StackTop
<1>4. Bottom(t) % 2 = 0 /\ StackTop(t) % 2 = 0
  <2>1. PICK h \in Nat : STACK = 2 * h
    BY <1>1
  <2>2. Bottom(t) = 2 * (t * h) /\ t * h \in Nat
    BY <1>1, <2>1 DEF Bottom
  <2> QED
    BY <1>2, <2>1, <2>2
<1> QED
  BY <1>1, <1>2, <1>3, <1>4 DEF Addr

LEMMA StacksApart ==
  ASSUME NEW t \in Task, NEW u \in Task, t # u
  PROVE  StackTop(t) <= Bottom(u) \/ StackTop(u) <= Bottom(t)
<1>1. STACK \in Nat /\ t \in Nat /\ u \in Nat
  BY FrameAssumption DEF Task
<1>2. CASE t < u
  <2>1. (t + 1) * STACK <= u * STACK
    BY <1>1, <1>2
  <2> QED
    BY <2>1 DEF StackTop, Bottom
<1>3. CASE u < t
  <2>1. (u + 1) * STACK <= t * STACK
    BY <1>1, <1>3
  <2> QED
    BY <2>1 DEF StackTop, Bottom
<1> QED
  BY <1>1, <1>2, <1>3

(* Where a frame below sp lies. *)
LEMMA AlignedRoom ==
  ASSUME NEW t \in Task, NEW sp, HasRoom(t, sp)
  PROVE  /\ Aligned(sp) \in Int /\ Aligned(sp) <= sp /\ sp <= Aligned(sp) + 1 /\ Aligned(sp) % 2 = 0
         /\ InStack(t, Aligned(sp) - 22)
         /\ (Aligned(sp) - 22) % 2 = 0
<1>1. sp \in Int /\ Bottom(t) + 24 <= sp /\ sp <= StackTop(t)
  BY DEF HasRoom
<1>2. /\ Aligned(sp) \in Int /\ Aligned(sp) <= sp /\ sp <= Aligned(sp) + 1 /\ Aligned(sp) % 2 = 0
      /\ (Aligned(sp) - 22) % 2 = 0
  BY <1>1 DEF Aligned
<1> QED
  BY <1>1, <1>2, StackBounds DEF InStack

(* What is written to one stack leaves the frames on the others alone. *)
LEMMA OthersKeep ==
  ASSUME FrameInv, NEW t \in Task, NEW u \in Task, u # t, Resumable(u, tasks[u]),
         \A a \in Addr : a <= Bottom(t) \/ a > StackTop(t) => mem'[a] = mem[a],
         want'[u] = want[u], tasks'[u] = tasks[u]
  PROVE  Resumable(u, tasks[u])' 
<1>1. InStack(u, tasks[u])
  BY DEF Resumable
<1>2. \A n \in FieldReg : mem'[tasks[u] + n] = mem[tasks[u] + n]
  <2> TAKE n \in FieldReg
  <2>1. n \in 1 .. 22
    BY DEF FieldReg
  <2>2. tasks[u] + n \in Int /\ Bottom(u) < tasks[u] + n /\ tasks[u] + n <= StackTop(u)
    BY <1>1, <2>1, StackBounds DEF InStack
  <2>3. tasks[u] + n \in Addr
    BY <2>2, StackBounds
  <2>4. tasks[u] + n <= Bottom(t) \/ tasks[u] + n > StackTop(t)
    BY <2>2, StacksApart, StackBounds
  <2> QED
    BY <2>3, <2>4
<1> QED
  BY <1>1, <1>2 DEF Resumable, Holds22, HasRoom, InStack, Bottom, StackTop

LEMMA ContextType ==
  ASSUME NEW t \in Task, NEW n \in Nat, NEW d \in Depths \cup {0}
  PROVE  /\ Context(t, n, d) \in [Reg -> Int]
         /\ HasRoom(t, Context(t, n, d)["rsp"])
<1>1. d \in Nat /\ d + 24 <= STACK
  BY FrameAssumption
<1>2. StackTop(t) - d \in Int /\ HasRoom(t, StackTop(t) - d)
  BY <1>1, StackBounds DEF HasRoom
<1>3. \A r \in Gpr \cup {"rip"} : Content(t, n, r) \in Int
  <2>1. \A r \in Gpr : (CHOOSE k \in DOMAIN PushOrder : PushOrder[k] = r) \in Int
    BY Orders DEF Gpr
  <2>2. t \in Int
    BY DEF Task
  <2>3. 1000 * (t + 1) + 100 * n \in Int
    BY <2>2
  <2> SUFFICES ASSUME NEW r \in Gpr \cup {"rip"} PROVE Content(t, n, r) \in Int
    OBVIOUS
  <2>4. (IF r = "rip" THEN 99 ELSE CHOOSE k \in DOMAIN PushOrder : PushOrder[k] = r) \in Int
    BY <2>1
  <2> QED
    BY <2>3, <2>4 DEF Content
<1>4. \A r \in Reg : Context(t, n, d)[r] \in Int
  BY <1>2, <1>3 DEF Context, Reg, KernelCs, KernelSs, Rflags
<1>5. "rsp" \in Reg
  BY DEF Reg
<1> QED
  BY <1>2, <1>4, <1>5 DEF Context

LEMMA FrameInvInit == FrameInit => FrameInv
<1> SUFFICES ASSUME FrameInit PROVE FrameInv
  OBVIOUS
<1>1. 0 \in Task
  BY FrameAssumption DEF Task
<1>2. \A t \in Task : Context(t, 0, 0) \in [Reg -> Int] /\ HasRoom(t, Context(t, 0, 0)["rsp"])
  BY ContextType
<1> QED
  BY <1>1, <1>2 DEF FrameInit, FrameInv, FrameType, Building

(* A step that leaves the frames of the other tasks alone, while cur and   *)
(* tasks stay: what is left to show is about the current task.             *)
LEMMA OnlyCurrent ==
  ASSUME FrameInv, FrameType', UNCHANGED <<tasks, cur>>,
         \A u \in Task : u # cur => want'[u] = want[u],
         \A a \in Addr : a <= Bottom(cur) \/ a > StackTop(cur) => mem'[a] = mem[a],
         phase' = "run" => HasRoom(cur, regs'["rsp"]),
         Building'
  PROVE  FrameInv'
<1>1. cur \in Task
  BY DEF FrameInv, FrameType
<1>2. ASSUME NEW u \in Task, u # cur', tasks'[u] # 0 PROVE Resumable(u, tasks[u])'
  BY <1>1, <1>2, OthersKeep DEF FrameInv
<1>3. phase' = "run" => HasRoom(cur, regs["rsp"])'
  BY DEF HasRoom, Bottom, StackTop
<1> QED
  BY <1>2, <1>3 DEF FrameInv

LEMMA FrameWork ==
  ASSUME FrameInv, NEW d \in Depths, Work(d) PROVE FrameInv'
<1>1. cur \in Task /\ gen \in [Task -> Nat] /\ phase = "run" /\ phase' = "run"
  BY DEF FrameInv, FrameType, Work
<1>2. gen' \in [Task -> Nat] /\ gen'[cur] \in Nat
  BY <1>1 DEF Work
<1>3. regs' \in [Reg -> Int] /\ HasRoom(cur, regs'["rsp"])
  BY <1>1, <1>2, ContextType DEF Work
<1>4. FrameType'
  BY <1>1, <1>2, <1>3 DEF Work, FrameInv, FrameType
<1>5. Building'
  BY <1>1 DEF Building
<1> QED
  BY <1>3, <1>4, <1>5, OnlyCurrent DEF Work

LEMMA FrameCreate ==
  ASSUME FrameInv, NEW t \in Task, TaskCreate(t) PROVE FrameInv'
<1> DEFINE frame == StackTop(t) - 22
           plan  == [r \in Reg |-> IF r \in Gpr THEN 0 ELSE Context(t, 0, 0)[r]]
<1>1. /\ cur \in Task /\ t # cur /\ phase = "run" /\ phase' = "run"
      /\ mem \in [Addr -> Int] /\ tasks \in [Task -> Int] /\ want \in [Task -> [Reg -> Int]]
      /\ UNCHANGED <<regs, cur, vector, gen>>
  BY DEF FrameInv, FrameType, TaskCreate
<1>2. /\ tasks' = [tasks EXCEPT ![t] = frame] /\ want' = [want EXCEPT ![t] = plan]
      /\ mem' = [a \in Addr |-> IF a > frame /\ a <= StackTop(t) THEN Created(t, a - frame)
                                ELSE IF a > StackTop(t) - STACK /\ a <= frame THEN 0 ELSE mem[a]]
  BY FieldIndex DEF TaskCreate
<1>3. InStack(t, frame) /\ StackTop(t) - STACK = Bottom(t) /\ StackTop(t) \in Nat
  BY StackBounds DEF InStack
<1>4. plan \in [Reg -> Int] /\ HasRoom(t, plan["rsp"])
  <2>1. Context(t, 0, 0) \in [Reg -> Int] /\ HasRoom(t, Context(t, 0, 0)["rsp"])
    BY ContextType
  <2>2. "rsp" \in Reg /\ "rsp" \notin Gpr
    BY RegFields DEF Reg, FieldReg
  <2> QED
    BY <2>1, <2>2
<1>5. \A n \in FieldReg : Created(t, n) = plan[Fields[n]] /\ Created(t, n) \in Int
  <2> TAKE n \in FieldReg
  <2>1. CASE n \in 1 .. 15
    <3>1. Fields[n] \in Gpr /\ Fields[n] \in Reg /\ Fields[n] \notin {"ss", "rsp", "rflags", "cs", "rip"}
      BY <2>1, RegFields
    <3> QED
      BY <3>1 DEF Created
  <2>2. CASE n \in 18 .. 22
    <3>1. Fields[n] \notin Gpr /\ Fields[n] \in Reg
      BY <2>2, RegFields DEF FieldReg
    <3>2. plan[Fields[n]] = Context(t, 0, 0)[Fields[n]] /\ plan[Fields[n]] \in Int
      BY <1>4, <3>1
    <3>3. Fields[n] \in {"ss", "rsp", "rflags", "cs", "rip"}
      BY <2>2, RegFields
    <3>4. StackTop(t) - 0 = StackTop(t)
      BY <1>3
    <3>5. Created(t, n) = Context(t, 0, 0)[Fields[n]]
      BY <3>1, <3>3, <3>4 DEF Created, Context
    <3> QED
      BY <3>2, <3>5
  <2> QED
    BY <2>1, <2>2 DEF FieldReg
<1>6. mem' \in [Addr -> Int]
  <2>1. \A n \in 1 .. 22 : Created(t, n) \in Int
    BY <1>5, RegFields DEF FieldReg, Created
  <2>2. \A a \in Addr : a > frame /\ a <= StackTop(t) => Created(t, a - frame) \in Int
    <3>1. \A a \in Addr : a > frame /\ a <= StackTop(t) => a - frame \in 1 .. 22
      BY <1>3 DEF Addr
    <3> HIDE DEF frame
    <3> QED
      BY <2>1, <3>1
  <2>3. \A a \in Addr : mem[a] \in Int
    BY <1>1
  <2> HIDE DEF frame
  <2> QED
    BY <1>2, <2>2, <2>3
<1>7. \A a \in Addr : a <= Bottom(t) \/ a > StackTop(t) => mem'[a] = mem[a]
  BY <1>2, <1>3, StackBounds, SMTT(30) DEF Addr
<1>8. FrameType'
  BY <1>1, <1>2, <1>3, <1>4, <1>6 DEF FrameInv, FrameType, InStack
<1>9. ASSUME NEW u \in Task, u # cur', tasks'[u] # 0 PROVE Resumable(u, tasks[u])'
  <2>1. CASE u = t
    <3>1. tasks'[t] = frame /\ want'[t] = plan
      BY <1>1, <1>2
    <3>2. \A n \in FieldReg : mem'[frame + n] = plan[Fields[n]]
      <4> TAKE n \in FieldReg
      <4>1. n \in 1 .. 22
        BY DEF FieldReg
      <4>2. frame + n \in Addr /\ frame + n > frame /\ frame + n <= StackTop(t) /\ (frame + n) - frame = n
        BY <1>3, <4>1, StackBounds DEF InStack
      <4> QED
        BY <1>2, <1>5, <4>2
    <3> QED
      BY <1>3, <1>4, <2>1, <3>1, <3>2 DEF Resumable, Holds22, HasRoom, InStack, Bottom, StackTop
  <2>2. CASE u # t
    BY <1>1, <1>2, <1>7, <1>9, <2>2, OthersKeep DEF FrameInv
  <2> QED
    BY <2>1, <2>2
<1>10. (phase = "run" => HasRoom(cur, regs["rsp"]))'
  BY <1>1 DEF FrameInv, HasRoom, Bottom, StackTop
<1>11. Building'
  BY <1>1 DEF Building
<1> QED
  BY <1>8, <1>9, <1>10, <1>11 DEF FrameInv

(* Words pushed within the stack of a task. *)
LEMMA PushedWords ==
  ASSUME mem \in [Addr -> Int], NEW t \in Task, NEW from \in Int, NEW words \in Seq(Int),
         Bottom(t) <= from - Len(words), from <= StackTop(t),
         mem' = Pushed(from, words)
  PROVE  /\ mem' \in [Addr -> Int]
         /\ \A a \in Addr : a <= Bottom(t) \/ a > StackTop(t) => mem'[a] = mem[a]
         /\ \A a \in Addr : a > from => mem'[a] = mem[a]
         /\ \A n \in 1 .. Len(words) : mem'[from - n + 1] = words[n]
<1>1. Len(words) \in Nat /\ \A n \in 1 .. Len(words) : words[n] \in Int
  OBVIOUS
<1>2. \A a \in Addr : a \in from - Len(words) + 1 .. from => from - a + 1 \in 1 .. Len(words)
  BY <1>1 DEF Addr
<1>3. mem' = [a \in Addr |-> IF a \in from - Len(words) + 1 .. from THEN words[from - a + 1] ELSE mem[a]]
  BY DEF Pushed
<1>4. mem' \in [Addr -> Int]
  BY <1>1, <1>2, <1>3
<1>5. \A a \in Addr : (a <= Bottom(t) \/ a > StackTop(t) \/ a > from) => a \notin from - Len(words) + 1 .. from
  BY <1>1, StackBounds, SMTT(30) DEF Addr
<1>6. \A n \in 1 .. Len(words) : /\ from - n + 1 \in Addr
                                 /\ from - n + 1 \in from - Len(words) + 1 .. from
                                 /\ from - (from - n + 1) + 1 = n
  <2>1. Bottom(t) \in Int /\ StackTop(t) \in Int
    BY StackBounds
  <2> TAKE n \in 1 .. Len(words)
  <2>2. from - n + 1 \in Int /\ Bottom(t) < from - n + 1 /\ from - n + 1 <= StackTop(t)
    BY <1>1, <2>1
  <2> QED
    BY <1>1, <2>2, StackBounds
<1> QED
  BY <1>3, <1>4, <1>5, <1>6

(* The words the CPU pushes. *)
CpuWords(v) == <<regs["ss"], regs["rsp"], regs["rflags"], regs["cs"], regs["rip"]>>
                 \o (IF v \in PushesError THEN <<ErrorCode>> ELSE <<>>)

LEMMA CpuWordsAre ==
  ASSUME regs \in [Reg -> Int], NEW v
  PROVE  /\ CpuWords(v) \in Seq(Int)
         /\ Len(CpuWords(v)) = IF v \in PushesError THEN 6 ELSE 5
         /\ \A n \in 1 .. 5 : CpuWords(v)[n] = regs[Fields[23 - n]]
         /\ v \in PushesError => CpuWords(v)[6] = ErrorCode
<1>1. regs["ss"] \in Int /\ regs["rsp"] \in Int /\ regs["rflags"] \in Int /\ regs["cs"] \in Int /\ regs["rip"] \in Int
  BY DEF Reg
<1> DEFINE five == <<regs["ss"], regs["rsp"], regs["rflags"], regs["cs"], regs["rip"]>>
<1>2. five \in Seq(Int) /\ Len(five) = 5
  BY <1>1
<1>3. \A n \in 1 .. 5 : five[n] = regs[Fields[23 - n]]
  BY RegFields
<1>4. CASE v \in PushesError
  <2>1. CpuWords(v) = five \o <<ErrorCode>>
    BY <1>4 DEF CpuWords
  <2>2. <<ErrorCode>> \in Seq(Int) /\ Len(<<ErrorCode>>) = 1 /\ <<ErrorCode>>[1] = ErrorCode
    BY DEF ErrorCode
  <2> HIDE DEF five
  <2> QED
    <3> DEFINE one == <<ErrorCode>>
    <3>1. one \in Seq(Int) /\ Len(one) = 1 /\ one[1] = ErrorCode
      BY <2>2
    <3> HIDE DEF one
    <3>2. /\ five \o one \in Seq(Int) /\ Len(five \o one) = Len(five) + Len(one)
          /\ \A i \in 1 .. Len(five) + Len(one) :
               (five \o one)[i] = IF i <= Len(five) THEN five[i] ELSE one[i - Len(five)]
      BY <1>2, <3>1, ConcatProperties
    <3>3. (five \o one)[6] = one[1]
      <4>1. 6 \in 1 .. Len(five) + Len(one) /\ ~(6 <= Len(five)) /\ 6 - Len(five) = 1
        BY <1>2, <3>1
      <4> QED
        BY <3>2, <4>1
    <3>4. \A i \in 1 .. 5 : (five \o one)[i] = five[i]
      <4>1. \A i \in 1 .. 5 : i \in 1 .. Len(five) + Len(one) /\ i <= Len(five)
        BY <1>2, <3>1
      <4> QED
        BY <3>2, <4>1
    <3>5. Len(five \o one) = 6
      BY <1>2, <3>1, <3>2
    <3>6. CpuWords(v) = five \o one
      BY <2>1 DEF one
    <3> QED
      BY <1>3, <1>4, <3>1, <3>2, <3>3, <3>4, <3>5, <3>6
<1>5. CASE v \notin PushesError
  <2>1. CpuWords(v) = five \o <<>>
    BY <1>5 DEF CpuWords
  <2>2. CpuWords(v) = five
    BY <1>2, <2>1, ConcatEmptySeq
  <2> HIDE DEF five
  <2> QED
    BY <1>2, <1>3, <1>5, <2>2
<1> QED
  BY <1>4, <1>5

LEMMA FrameInterrupt ==
  ASSUME FrameInv, NEW v \in Vectors, Interrupt(v) PROVE FrameInv'
<1> DEFINE a == Aligned(regs["rsp"])
           words == CpuWords(v)
<1>1. /\ cur \in Task /\ regs \in [Reg -> Int] /\ mem \in [Addr -> Int] /\ want \in [Task -> [Reg -> Int]]
      /\ phase = "run" /\ phase' = "stub" /\ vector' = v
      /\ HasRoom(cur, regs["rsp"])
      /\ UNCHANGED <<tasks, cur, gen>>
      /\ want' = [want EXCEPT ![cur] = regs]
  BY DEF FrameInv, FrameType, Interrupt
<1>2. /\ mem' = Pushed(a, words)
      /\ regs' = [regs EXCEPT !["rsp"] = a - Len(words), !["rflags"] = 2]
  BY DEF Interrupt, CpuWords
<1>3. a \in Int /\ InStack(cur, a - 22) /\ a <= regs["rsp"]
  BY <1>1, AlignedRoom
<1>4. /\ words \in Seq(Int) /\ Len(words) = IF v \in PushesError THEN 6 ELSE 5
      /\ \A n \in 1 .. 5 : words[n] = regs[Fields[23 - n]]
      /\ v \in PushesError => words[6] = ErrorCode
  BY <1>1, CpuWordsAre
<1> HIDE DEF a, words
<1>5. Bottom(cur) <= a - Len(words) /\ a <= StackTop(cur)
  <2>1. Bottom(cur) \in Int /\ StackTop(cur) \in Int
    BY <1>1, StackBounds
  <2>2. Len(words) \in Int /\ Len(words) <= 6
    <3>1. CASE v \in PushesError
      BY <1>4, <3>1
    <3>2. CASE v \notin PushesError
      BY <1>4, <3>2
    <3> QED
      BY <3>1, <3>2
  <2> QED
    BY <1>3, <2>1, <2>2 DEF InStack
<1>6. /\ mem' \in [Addr -> Int]
      /\ \A x \in Addr : x <= Bottom(cur) \/ x > StackTop(cur) => mem'[x] = mem[x]
      /\ \A n \in 1 .. Len(words) : mem'[a - n + 1] = words[n]
  BY <1>1, <1>2, <1>3, <1>4, <1>5, PushedWords
<1>7. want'[cur] = regs /\ FrameAt' = a - 22
  BY <1>1 DEF FrameAt, a
<1>8. /\ regs' \in [Reg -> Int] /\ regs'["rsp"] = a - Len(words)
      /\ \A r \in Gpr : regs'[r] = regs[r]
  <2>1. "rsp" \in Reg /\ "rflags" \in Reg /\ "rsp" \notin Gpr /\ "rflags" \notin Gpr /\ "rsp" # "rflags" /\ Gpr \subseteq Reg
    BY RegFields DEF Reg
  <2> QED
    <3>1. a - Len(words) \in Int
      BY <1>3, <1>4
    <3> QED
      BY <1>1, <1>2, <2>1, <3>1
<1>9. FrameType'
  BY <1>1, <1>6, <1>8 DEF FrameInv, FrameType
<1>10. \A n \in 18 .. 22 : mem'[(a - 22) + n] = regs[Fields[n]]
  <2> TAKE n \in 18 .. 22
  <2>1. 23 - n \in 1 .. 5 /\ 23 - (23 - n) = n /\ a - (23 - n) + 1 = (a - 22) + n
    BY <1>3
  <2>2. 23 - n \in 1 .. Len(words)
    <3>1. CASE v \in PushesError
      BY <1>4, <2>1, <3>1
    <3>2. CASE v \notin PushesError
      BY <1>4, <2>1, <3>2
    <3> QED
      BY <3>1, <3>2
  <2>3. mem'[a - (23 - n) + 1] = words[23 - n]
    BY <1>6, <2>2
  <2>4. words[23 - n] = regs[Fields[23 - (23 - n)]]
    BY <1>4, <2>1
  <2> QED
    BY <2>1, <2>3, <2>4
<1>11. v \in PushesError => mem'[(a - 22) + 17] = ErrorCode
  <2>1. a - 6 + 1 = (a - 22) + 17
    BY <1>3
  <2> QED
    BY <1>4, <1>6, <2>1
<1>12. Building'
  <2>1. HasRoom(cur, want[cur]["rsp"])'
    BY <1>1, <1>7 DEF HasRoom, Bottom, StackTop
  <2>2. GprIntact'
    BY <1>1, <1>7, <1>8, RegFields DEF GprIntact
  <2>3. Holds22(cur, FrameAt, 18)'
    BY <1>1, <1>7, <1>10 DEF Holds22, FieldReg
  <2>4. regs'["rsp"] = FrameAt' + (IF v \in PushesError THEN 16 ELSE 17)
    BY <1>3, <1>4, <1>7, <1>8
  <2> QED
    BY <1>1, <1>7, <1>11, <2>1, <2>2, <2>3, <2>4 DEF Building
<1> QED
  BY <1>1, <1>6, <1>9, <1>12, OnlyCurrent

(* Where the frame of the current task lies while it is being built. *)
LEMMA FramePlace ==
  ASSUME FrameInv, phase \in {"stub", "push", "handler"}
  PROVE  /\ cur \in Task /\ FrameAt \in Int /\ InStack(cur, FrameAt) /\ FrameAt % 2 = 0
         /\ \A n \in 1 .. 22 : FrameAt + n \in Addr
<1>1. cur \in Task /\ HasRoom(cur, want[cur]["rsp"])
  BY DEF FrameInv, FrameType, Building
<1>2. InStack(cur, FrameAt) /\ FrameAt % 2 = 0
  BY <1>1, AlignedRoom DEF FrameAt
<1>3. \A n \in 1 .. 22 : FrameAt + n \in Int /\ Bottom(cur) < FrameAt + n /\ FrameAt + n <= StackTop(cur)
  BY <1>1, <1>2, StackBounds DEF InStack
<1> QED
  BY <1>1, <1>2, <1>3, StackBounds DEF InStack

(* The code pushes words into its frame. *)
LEMMA FramePush ==
  ASSUME FrameInv, phase \in {"stub", "push"}, NEW words \in Seq(Int), Len(words) \in 1 .. 15,
         FrameAt <= regs["rsp"] - Len(words), regs["rsp"] <= FrameAt + 17,
         PushAll(words, <<vector, want>>),
         phase' \in {"push", "handler"}
  PROVE  /\ FrameType' /\ FrameAt' = FrameAt
         /\ UNCHANGED <<vector, want, tasks, cur>>
         /\ regs'["rsp"] = regs["rsp"] - Len(words)
         /\ \A n \in 1 .. 15 : regs'[Fields[n]] = regs[Fields[n]]
         /\ \A a \in Addr : a <= Bottom(cur) \/ a > StackTop(cur) => mem'[a] = mem[a]
         /\ \A n \in 1 .. 22 : regs["rsp"] < FrameAt + n => mem'[FrameAt + n] = mem[FrameAt + n]
         /\ \A n \in 1 .. Len(words) : mem'[regs["rsp"] - n + 1] = words[n]
<1>1. /\ cur \in Task /\ regs \in [Reg -> Int] /\ mem \in [Addr -> Int]
      /\ mem' = Pushed(regs["rsp"], words)
      /\ regs' = [regs EXCEPT !["rsp"] = regs["rsp"] - Len(words)]
      /\ UNCHANGED <<vector, want, tasks, cur, gen>>
  BY DEF FrameInv, FrameType, PushAll
<1>2. regs["rsp"] \in Int /\ "rsp" \in Reg /\ Len(words) \in Int
  BY <1>1 DEF Reg
<1>3. FrameAt \in Int /\ InStack(cur, FrameAt) /\ \A n \in 1 .. 22 : FrameAt + n \in Addr
  BY FramePlace
<1>4. Bottom(cur) <= regs["rsp"] - Len(words) /\ regs["rsp"] <= StackTop(cur)
  <2>1. Bottom(cur) \in Int /\ StackTop(cur) \in Int
    BY <1>1, StackBounds
  <2>2. Bottom(cur) < FrameAt /\ FrameAt + 22 <= StackTop(cur)
    BY <1>3 DEF InStack
  <2>3. FrameAt \in Int
    BY <1>3
  <2> QED
    BY <1>2, <2>1, <2>2, <2>3
<1>5. /\ mem' \in [Addr -> Int]
      /\ \A a \in Addr : a <= Bottom(cur) \/ a > StackTop(cur) => mem'[a] = mem[a]
      /\ \A a \in Addr : a > regs["rsp"] => mem'[a] = mem[a]
      /\ \A n \in 1 .. Len(words) : mem'[regs["rsp"] - n + 1] = words[n]
  BY <1>1, <1>2, <1>4, PushedWords
<1>6. regs["rsp"] - Len(words) \in Int
  BY <1>2
<1>7. regs' \in [Reg -> Int] /\ regs'["rsp"] = regs["rsp"] - Len(words)
  BY <1>1, <1>2, <1>6
<1>8. \A n \in 1 .. 15 : Fields[n] \in Reg /\ Fields[n] # "rsp"
  <2>1. Fields[21] = "rsp" /\ Fields[21] \notin Gpr
    BY RegFields
  <2> QED
    BY <2>1, RegFields
<1>9. \A n \in 1 .. 15 : regs'[Fields[n]] = regs[Fields[n]]
  BY <1>1, <1>8
<1>10. FrameType'
  BY <1>1, <1>5, <1>7 DEF FrameInv, FrameType
<1>11. FrameAt' = FrameAt
  BY <1>1 DEF FrameAt
<1>12. \A n \in 1 .. 22 : regs["rsp"] < FrameAt + n => mem'[FrameAt + n] = mem[FrameAt + n]
  BY <1>2, <1>3, <1>5
<1> QED
  BY <1>1, <1>5, <1>7, <1>9, <1>10, <1>11, <1>12

LEMMA FrameStub ==
  ASSUME FrameInv, Stub PROVE FrameInv'
<1> DEFINE words == IF vector \in ErrorStubs THEN <<vector>> ELSE <<0, vector>>
           size  == IF vector \in PushesError THEN 1 ELSE 2
<1>1. /\ phase = "stub" /\ phase' = "push" /\ PushAll(words, <<vector, want>>)
      /\ HasRoom(cur, want[cur]["rsp"]) /\ GprIntact /\ Holds22(cur, FrameAt, 18)
      /\ regs["rsp"] = FrameAt + (IF vector \in PushesError THEN 16 ELSE 17)
      /\ vector \in PushesError => mem[FrameAt + 17] = ErrorCode
  BY DEF Stub, FrameInv, Building
<1>2. vector \in Int /\ (vector \in ErrorStubs <=> vector \in PushesError)
  BY FrameAssumption DEF FrameInv, FrameType, ErrorStubs, PushesError
<1>3. words \in Seq(Int) /\ Len(words) = size
  BY <1>2
<1>4. /\ words[size] = vector
      /\ vector \notin PushesError => words[1] = 0
  BY <1>2
<1>5. FrameAt \in Int /\ cur \in Task
  BY <1>1, FramePlace
<1> HIDE DEF words
<1>6. /\ size \in {1, 2} /\ Len(words) \in 1 .. 15
      /\ regs["rsp"] - Len(words) = FrameAt + 15 /\ regs["rsp"] <= FrameAt + 17
      /\ regs["rsp"] - size + 1 = FrameAt + 16
  <2>1. CASE vector \in PushesError
    BY <1>1, <1>3, <1>5, <2>1
  <2>2. CASE vector \notin PushesError
    BY <1>1, <1>3, <1>5, <2>2
  <2> QED
    BY <2>1, <2>2
<1>7. FrameAt <= regs["rsp"] - Len(words)
  BY <1>5, <1>6
<1>8. /\ FrameType' /\ FrameAt' = FrameAt
      /\ UNCHANGED <<vector, want, tasks, cur>>
      /\ regs'["rsp"] = FrameAt + 15
      /\ \A n \in 1 .. 15 : regs'[Fields[n]] = regs[Fields[n]]
      /\ \A a \in Addr : a <= Bottom(cur) \/ a > StackTop(cur) => mem'[a] = mem[a]
      /\ \A n \in 1 .. 22 : regs["rsp"] < FrameAt + n => mem'[FrameAt + n] = mem[FrameAt + n]
      /\ \A n \in 1 .. Len(words) : mem'[regs["rsp"] - n + 1] = words[n]
  BY <1>1, <1>3, <1>6, <1>7, FramePush
<1>9. mem'[FrameAt + 16] = vector
  <2>1. size \in 1 .. Len(words)
    BY <1>3, <1>6
  <2> QED
    BY <1>4, <1>6, <1>8, <2>1
<1>10. mem'[FrameAt + 17] = ErrorOf(vector)
  <2>1. CASE vector \in PushesError
    <3>1. regs["rsp"] < FrameAt + 17
      BY <1>1, <1>5, <2>1
    <3> QED
      BY <1>1, <1>8, <2>1, <3>1 DEF ErrorOf
  <2>2. CASE vector \notin PushesError
    <3>1. regs["rsp"] - 1 + 1 = FrameAt + 17 /\ 1 \in 1 .. Len(words)
      BY <1>1, <1>3, <1>5, <2>2
    <3>2. mem'[regs["rsp"] - 1 + 1] = words[1]
      BY <1>8, <3>1
    <3> QED
      BY <1>4, <2>2, <3>1, <3>2 DEF ErrorOf
  <2> QED
    BY <2>1, <2>2
<1>11. Holds22(cur, FrameAt, 18)'
  <2>0. regs["rsp"] \in Int
    BY DEF FrameInv, FrameType, Reg
  <2>1. \A n \in 18 .. 22 : n \in FieldReg /\ n \in 1 .. 22 /\ regs["rsp"] < FrameAt + n
    BY <1>5, <1>6, <2>0 DEF FieldReg
  <2>2. \A n \in FieldReg : n >= 18 => n \in 18 .. 22
    BY DEF FieldReg
  <2> QED
    BY <1>1, <1>8, <2>1, <2>2 DEF Holds22
<1>12. GprIntact'
  BY <1>1, <1>8 DEF GprIntact
<1>13. HasRoom(cur, want[cur]["rsp"])'
  BY <1>1, <1>8 DEF HasRoom, Bottom, StackTop
<1>14. Building'
  BY <1>1, <1>8, <1>9, <1>10, <1>11, <1>12, <1>13 DEF Building, ErrorOf
<1> QED
  BY <1>1, <1>8, <1>14, OnlyCurrent

LEMMA FrameSave ==
  ASSUME FrameInv, SaveRegisters PROVE FrameInv'
<1> DEFINE words == [n \in DOMAIN PushOrder |-> regs[PushOrder[n]]]
<1>1. /\ phase = "push" /\ phase' = "handler" /\ PushAll(words, <<vector, want>>)
      /\ regs \in [Reg -> Int]
      /\ HasRoom(cur, want[cur]["rsp"]) /\ GprIntact /\ Holds22(cur, FrameAt, 18)
      /\ regs["rsp"] = FrameAt + 15
      /\ mem[FrameAt + 16] = vector /\ mem[FrameAt + 17] = ErrorOf(vector)
  BY DEF SaveRegisters, FrameInv, FrameType, Building
<1>2. \A n \in 1 .. 15 : PushOrder[n] = Fields[16 - n] /\ PushOrder[n] \in Reg
  <2>1. \A n \in 1 .. 15 : PushOrder[n] = Fields[16 - n] /\ 16 - n \in FieldReg
    BY Orders DEF FieldReg
  <2> QED
    BY <2>1, RegFields
<1>3. DOMAIN PushOrder = 1 .. 15
  BY Orders
<1>4. words \in Seq(Int) /\ Len(words) = 15 /\ \A n \in 1 .. 15 : words[n] = regs[Fields[16 - n]]
  <2>1. words = [n \in 1 .. 15 |-> regs[PushOrder[n]]]
    BY <1>3
  <2>2. \A n \in 1 .. 15 : regs[PushOrder[n]] \in Int
    BY <1>1, <1>2
  <2> QED
    BY <1>2, <2>1, <2>2
<1>5. FrameAt \in Int /\ cur \in Task
  BY <1>1, FramePlace
<1> HIDE DEF words
<1>6. /\ FrameAt = regs["rsp"] - Len(words) /\ regs["rsp"] <= FrameAt + 17
      /\ FrameAt <= regs["rsp"] - Len(words) /\ Len(words) \in 1 .. 15
  <2>1. regs["rsp"] = FrameAt + 15 /\ Len(words) = 15
    BY <1>1, <1>4
  <2> QED
    BY <1>5, <2>1
<1>7. /\ FrameType' /\ FrameAt' = FrameAt
      /\ UNCHANGED <<vector, want, tasks, cur>>
      /\ regs'["rsp"] = FrameAt
      /\ \A a \in Addr : a <= Bottom(cur) \/ a > StackTop(cur) => mem'[a] = mem[a]
      /\ \A n \in 1 .. 22 : regs["rsp"] < FrameAt + n => mem'[FrameAt + n] = mem[FrameAt + n]
      /\ \A n \in 1 .. Len(words) : mem'[regs["rsp"] - n + 1] = words[n]
  BY <1>1, <1>4, <1>6, FramePush
<1>8. \A n \in 16 .. 22 : mem'[FrameAt + n] = mem[FrameAt + n]
  <2> TAKE n \in 16 .. 22
  <2>1. n \in 1 .. 22 /\ regs["rsp"] < FrameAt + n
    BY <1>1, <1>5
  <2> QED
    BY <1>7, <2>1
<1>9. \A n \in 1 .. 15 : mem'[FrameAt + n] = want[cur][Fields[n]]
  <2> TAKE n \in 1 .. 15
  <2>1. /\ 16 - n \in 1 .. Len(words) /\ 16 - n \in 1 .. 15 /\ 16 - (16 - n) = n
        /\ regs["rsp"] - (16 - n) + 1 = FrameAt + n
    <3>1. 16 - n \in 1 .. 15 /\ 16 - (16 - n) = n /\ n \in Int
      OBVIOUS
    <3>2. regs["rsp"] = FrameAt + 15 /\ FrameAt \in Int
      BY <1>1, <1>5
    <3> QED
      BY <1>4, <3>1, <3>2
  <2>2. mem'[regs["rsp"] - (16 - n) + 1] = words[16 - n]
    BY <1>7, <2>1
  <2>3. words[16 - n] = regs[Fields[16 - (16 - n)]]
    BY <1>4, <2>1
  <2> QED
    BY <1>1, <2>1, <2>2, <2>3 DEF GprIntact
<1>10. Holds22(cur, FrameAt, 1)'
  <2>1. \A n \in 18 .. 22 : mem[FrameAt + n] = want[cur][Fields[n]]
    BY <1>1 DEF Holds22, FieldReg
  <2>2. \A n \in FieldReg : n \in 1 .. 15 \/ n \in 18 .. 22
    BY DEF FieldReg
  <2> QED
    BY <1>7, <1>8, <1>9, <2>1, <2>2, SMTT(30) DEF Holds22
<1>11. HasRoom(cur, want[cur]["rsp"])'
  BY <1>1, <1>7 DEF HasRoom, Bottom, StackTop
<1>12. Building'
  BY <1>1, <1>7, <1>8, <1>10, <1>11 DEF Building, ErrorOf
<1> QED
  BY <1>1, <1>7, <1>12, OnlyCurrent

(* The frame the handler is called with resumes the task. *)
LEMMA HandledResumable ==
  ASSUME FrameInv, phase = "handler"
  PROVE  cur \in Task /\ Resumable(cur, regs["rsp"]) /\ regs["rsp"] \in Int
<1>1. HasRoom(cur, want[cur]["rsp"]) /\ Holds22(cur, FrameAt, 1) /\ regs["rsp"] = FrameAt
  BY DEF FrameInv, Building
<1> QED
  BY <1>1, FramePlace DEF Resumable

LEMMA FrameIrq ==
  ASSUME FrameInv, IrqHandler PROVE FrameInv'
<1>1. /\ phase = "handler" /\ phase' = "return" /\ UNCHANGED <<mem, vector, gen, want>>
      /\ cur \in Task /\ regs \in [Reg -> Int] /\ tasks \in [Task -> Int]
      /\ Resumable(cur, regs["rsp"]) /\ regs["rsp"] \in Int
  BY HandledResumable DEF IrqHandler, FrameInv, FrameType
<1>2. \A sp \in Int : Clobbered(sp) \in [Reg -> Int] /\ Clobbered(sp)["rsp"] = sp
  <2>1. "rsp" \in Reg /\ "rsp" \notin Gpr
    BY RegFields DEF Reg
  <2> QED
    BY <1>1, <2>1 DEF Clobbered
<1>3. \A u \in Task : u # cur /\ tasks[u] # 0 => Resumable(u, tasks[u])
  BY DEF FrameInv
<1>4. CASE regs' = Clobbered(regs["rsp"]) /\ UNCHANGED <<tasks, cur>>
  <2>1. regs' \in [Reg -> Int] /\ regs'["rsp"] = regs["rsp"]
    BY <1>1, <1>2, <1>4
  <2>2. FrameType'
    BY <1>1, <1>4, <2>1 DEF FrameInv, FrameType
  <2>3. Resumable(cur, regs["rsp"])'
    BY <1>1, <1>4, <2>1 DEF Resumable, HasRoom, InStack, Holds22, Bottom, StackTop
  <2>4. Building'
    BY <1>1, <2>3 DEF Building
  <2>5. \A a \in Addr : mem'[a] = mem[a]
    BY <1>1
  <2> QED
    BY <1>1, <1>4, <2>2, <2>4, <2>5, OnlyCurrent
<1>5. ASSUME NEW t \in Task, tasks' = [tasks EXCEPT ![cur] = regs["rsp"]],
             tasks'[t] # 0, cur' = t, regs' = Clobbered(tasks'[t])
      PROVE  FrameInv'
  <2>1. \A u \in Task : tasks'[u] # 0 => Resumable(u, tasks'[u])
    BY <1>1, <1>3, <1>5
  <2>2. tasks' \in [Task -> Int] /\ tasks'[t] \in Int
    BY <1>1, <1>5
  <2>3. regs' \in [Reg -> Int] /\ regs'["rsp"] = tasks'[t]
    BY <1>2, <1>5, <2>2
  <2>4. FrameType'
    BY <1>1, <1>5, <2>2, <2>3 DEF FrameInv, FrameType
  <2>5. ASSUME NEW u \in Task, tasks'[u] # 0 PROVE Resumable(u, tasks[u])'
    BY <1>1, <2>1, <2>5 DEF Resumable, HasRoom, InStack, Holds22, Bottom, StackTop
  <2>6. Resumable(cur, regs["rsp"])'
    <3>1. Resumable(t, tasks'[t])
      BY <1>5, <2>1
    <3> QED
      BY <1>1, <1>5, <2>3, <3>1 DEF Resumable, HasRoom, InStack, Holds22, Bottom, StackTop
  <2>7. Building'
    BY <1>1, <2>6 DEF Building
  <2> QED
    BY <1>1, <2>4, <2>5, <2>7 DEF FrameInv
<1> QED
  BY <1>4, <1>5 DEF IrqHandler

LEMMA FrameIsr ==
  ASSUME FrameInv, IsrHandler PROVE FrameInv'
<1>1. FrameType'
  BY DEF IsrHandler, FrameInv, FrameType
<1>2. Building'
  BY DEF IsrHandler, Building
<1>3. phase' = "halt" /\ UNCHANGED <<tasks, cur, want, mem>>
  BY DEF IsrHandler
<1> QED
  BY <1>1, <1>2, <1>3, OnlyCurrent

(* What is popped. *)
LEMMA Popped ==
  ASSUME FrameInv, Return PROVE regs' = want[cur]
<1> DEFINE iret == <<"rip", "cs", "rflags", "rsp", "ss">>
           top  == regs["rsp"] + Len(PopOrder) + Skip
<1>1. /\ phase = "return" /\ cur \in Task /\ want[cur] \in [Reg -> Int]
      /\ Resumable(cur, regs["rsp"])
      /\ \A n \in FieldReg : mem[regs["rsp"] + n] = want[cur][Fields[n]]
  BY DEF Return, FrameInv, FrameType, Building, Resumable, Holds22, FieldReg
<1>2. regs["rsp"] \in Int
  BY <1>1 DEF Resumable, InStack
<1>3. regs' = [r \in Reg |->
                 IF r \in Gpr THEN mem[regs["rsp"] + (CHOOSE n \in DOMAIN PopOrder : PopOrder[n] = r)]
                 ELSE mem[top + (CHOOSE n \in DOMAIN iret : iret[n] = r)]]
  BY DEF Return
<1>4. top = regs["rsp"] + 17
  BY <1>2, Orders DEF Skip
<1>5. \A n \in 18 .. 22 : (CHOOSE m \in DOMAIN iret : iret[m] = Fields[n]) = n - 17
  <2>1. DOMAIN iret = 1 .. 5 /\ \A m \in 1 .. 5 : iret[m] = Fields[m + 17]
    BY RegFields
  <2>2. \A m \in 1 .. 5, n \in 18 .. 22 : Fields[m + 17] = Fields[n] => m = n - 17
    <3>1. \A m, n \in 18 .. 22 : Fields[m] = Fields[n] => m = n
      BY RegFields
    <3>2. \A m \in 1 .. 5 : m + 17 \in 18 .. 22
      OBVIOUS
    <3> QED
      BY <3>1, <3>2
  <2>3. \A n \in 18 .. 22 : n - 17 \in 1 .. 5 /\ (n - 17) + 17 = n
    OBVIOUS
  <2> HIDE DEF iret
  <2> QED
    BY <2>1, <2>2, <2>3
<1> HIDE DEF iret, top
<1>6. ASSUME NEW r \in Reg PROVE regs'[r] = want[cur][r]
  <2>1. PICK n \in FieldReg : r = Fields[n]
    BY RegFields
  <2>2. CASE n \in 1 .. 15
    <3>1. r \in Gpr /\ (CHOOSE m \in DOMAIN PopOrder : PopOrder[m] = r) = n
      BY <2>1, <2>2, RegFields, Orders
    <3> QED
      BY <1>1, <1>3, <2>1, <3>1
  <2>3. CASE n \in 18 .. 22
    <3>1. r \notin Gpr /\ (CHOOSE m \in DOMAIN iret : iret[m] = r) = n - 17
      BY <1>5, <2>1, <2>3, RegFields
    <3>2. top + (n - 17) = regs["rsp"] + n
      BY <1>2, <1>4, <2>3
    <3> QED
      BY <1>1, <1>3, <2>1, <3>1, <3>2
  <2> QED
    BY <2>2, <2>3 DEF FieldReg
<1>7. DOMAIN regs' = Reg /\ DOMAIN want[cur] = Reg
  BY <1>1, <1>3
<1>8. regs' = [r \in Reg |-> regs'[r]]
  BY <1>3
<1>9. want[cur] = [r \in Reg |-> want[cur][r]]
  BY <1>1
<1> QED
  BY <1>6, <1>8, <1>9

LEMMA FrameReturn ==
  ASSUME FrameInv, Return PROVE FrameInv'
<1>1. /\ regs' = want[cur] /\ phase = "return" /\ phase' = "run"
      /\ UNCHANGED <<mem, tasks, cur, vector, gen, want>>
  BY Popped DEF Return
<1>2. cur \in Task /\ want[cur] \in [Reg -> Int] /\ HasRoom(cur, want[cur]["rsp"])
  BY <1>1 DEF FrameInv, FrameType, Building, Resumable
<1>3. FrameType'
  BY <1>1, <1>2 DEF FrameInv, FrameType
<1>4. Building'
  BY <1>1 DEF Building
<1> QED
  BY <1>1, <1>2, <1>3, <1>4, OnlyCurrent

LEMMA FrameStep ==
  FrameInv /\ [FrameNext]_frameVars =>
    FrameInv' /\ [phase = "return" => regs' = want[cur]]_frameVars
<1> SUFFICES ASSUME FrameInv, [FrameNext]_frameVars
             PROVE  FrameInv' /\ [phase = "return" => regs' = want[cur]]_frameVars
  OBVIOUS
<1>1. CASE UNCHANGED frameVars
  <2>1. FrameInv'
    BY <1>1 DEF frameVars, FrameInv, FrameType, Building, Resumable, Holds22, HasRoom, InStack,
       GprIntact, FrameAt
  <2> QED
    BY <1>1, <2>1
<1>2. CASE \E depth \in Depths : Work(depth)
  BY <1>2, FrameWork DEF Work
<1>3. CASE \E t \in Task : TaskCreate(t)
  BY <1>3, FrameCreate DEF TaskCreate
<1>4. CASE \E v \in Vectors : Interrupt(v)
  BY <1>4, FrameInterrupt DEF Interrupt
<1>5. CASE Stub
  BY <1>5, FrameStub DEF Stub
<1>6. CASE SaveRegisters
  BY <1>6, FrameSave DEF SaveRegisters
<1>7. CASE IsrHandler
  BY <1>7, FrameIsr DEF IsrHandler
<1>8. CASE IrqHandler
  BY <1>8, FrameIrq DEF IrqHandler
<1>9. CASE Return
  BY <1>9, FrameReturn, Popped
<1> QED
  BY <1>1, <1>2, <1>3, <1>4, <1>5, <1>6, <1>7, <1>8, <1>9 DEF FrameNext

LEMMA FrameSeen == FrameInv => HandlerSees
<1> SUFFICES ASSUME FrameInv, phase = "handler" PROVE HandlerSees
  BY DEF HandlerSees
<1>1. /\ regs["rsp"] = FrameAt /\ FrameAt % 2 = 0
      /\ mem[FrameAt + 16] = vector /\ mem[FrameAt + 17] = ErrorOf(vector)
      /\ Holds22(cur, FrameAt, 1)
  BY FramePlace DEF FrameInv, Building
<1>2. \A n \in 1 .. 22 : Field(FrameAt, Fields[n]) = mem[FrameAt + n]
  BY FieldIndex DEF Field
<1>3. Field(FrameAt, "int_no") = vector /\ Field(FrameAt, "error_code") = ErrorOf(vector)
  BY <1>1, <1>2, RegFields
<1>4. ASSUME NEW r \in Reg PROVE Field(FrameAt, r) = want[cur][r]
  <2>1. PICK n \in FieldReg : r = Fields[n]
    BY RegFields
  <2>2. n \in 1 .. 22 /\ n >= 1
    BY DEF FieldReg
  <2> QED
    BY <1>1, <1>2, <2>1, <2>2 DEF Holds22
<1> QED
  BY <1>1, <1>3, <1>4 DEF HandlerSees, ErrorOf

----------------------------------------------------------------------------
(* The parts together *)

(* The parts keep their invariants, and every step is one of the queue, or *)
(* leaves it as it is.                                                     *)
LEMMA PartsStep ==
  KeyboardInv /\ ConsoleInv /\ FrameInv /\ [Next]_vars =>
    /\ KeyboardInv' /\ ConsoleInv' /\ FrameInv'
    /\ [Queue!Next]_(Queue!vars)
    /\ [phase = "return" => regs' = want[cur]]_frameVars
<1> SUFFICES ASSUME KeyboardInv, ConsoleInv, FrameInv, [Next]_vars
             PROVE  /\ KeyboardInv' /\ ConsoleInv' /\ FrameInv'
                    /\ [Queue!Next]_(Queue!vars)
                    /\ [phase = "return" => regs' = want[cur]]_frameVars
  OBVIOUS
<1>1. [KeyboardNext]_keyboardVars /\ [ConsoleNext]_consoleVars /\ [FrameNext]_frameVars
  BY DEF Next, InKeyboard, InConsole, InFrame, InSerial, vars
<1> QED
  BY <1>1, KeyboardStep, ConsoleStep, FrameStep

(* keyboard.c: the ring of key codes is a first-in first-out queue of      *)
(* KB_BUFFER_SIZE - 1 characters, for every size of the buffer and every   *)
(* keymap, wherever the interrupt falls between the test, the load and the *)
(* advance of keyboard_read.                                               *)
THEOREM QueueRefinement == Spec => ImplementsQueue
<1>1. Init => KeyboardInv /\ ConsoleInv /\ FrameInv /\ Queue!Init
  BY KeyboardInvInit, ConsoleInvInit, FrameInvInit DEF Init
<1> QED
  BY <1>1, PartsStep, PTL DEF Spec, ImplementsQueue, Queue!Spec

(* fb.c: whatever is printed, on a screen of whatever size and pitch,      *)
(* nothing is written outside the framebuffer, the next character will be  *)
(* drawn whole and it will not cover the one before it.                    *)
THEOREM TextStaysLegible == Spec => []TextLegible
<1>1. Init => KeyboardInv /\ ConsoleInv /\ FrameInv
  BY KeyboardInvInit, ConsoleInvInit, FrameInvInit DEF Init
<1>2. ConsoleInv => TextLegible
  BY DEF ConsoleInv
<1> QED
  BY <1>1, <1>2, PartsStep, PTL DEF Spec

(* interrupts.asm, idt.c and pit.c: the handlers read the interrupted      *)
(* context through registers_t, for every number of tasks, size of stack,  *)
(* depth of it and set of interrupts.                                      *)
THEOREM HandlersSeeContext == Spec => []HandlerSees
<1>1. Init => KeyboardInv /\ ConsoleInv /\ FrameInv
  BY KeyboardInvInit, ConsoleInvInit, FrameInvInit DEF Init
<1> QED
  BY <1>1, FrameSeen, PartsStep, PTL DEF Spec

(* interrupts.asm and task.c: isr_return gives the task it resumes every   *)
(* register as it was, although any number of other tasks ran on their own *)
(* stacks in between and new ones were created.                            *)
THEOREM InterruptsAreTransparent == Spec => Transparent
<1>1. Init => KeyboardInv /\ ConsoleInv /\ FrameInv
  BY KeyboardInvInit, ConsoleInvInit, FrameInvInit DEF Init
<1> QED
  BY <1>1, PartsStep, PTL DEF Spec, Transparent

=============================================================================
