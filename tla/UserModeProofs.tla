---------------------------- MODULE UserModeProofs ----------------------------
(***************************************************************************)
(* Theorems about UserMode and the parts it composes, for every set of     *)
(* tasks, workload, size of the key ring and size of the screen.           *)
(*                                                                         *)
(* What is typed is read in order (RingInv), and what is written is shown  *)
(* (TermInv), whatever the interrupts, the system calls and the switches   *)
(* between threads.                                                        *)
(*                                                                         *)
(* Interrupts are off exactly where they should be, and no lock is lost,   *)
(* although a key press unmasks IRQ0 under the scheduler lock (CpuInv).    *)
(* LockBalance, on which the proofs about Scheduler rest, is false here;   *)
(* what is left of it is SwitchedOK, and it is enough because the postpone *)
(* counter, which no key press touches, still keeps every thread from      *)
(* being switched away from inside lock_stuff.                             *)
(*                                                                         *)
(* A thread in ring 3 has its kernel stack in the TSS (OwnStack).  The TSS *)
(* is only set by a thread that resumes where a ready list was not empty,  *)
(* so the proof follows a task that is always ready (AlwaysReady), which   *)
(* needs to know what the lists hold (LinksOK) and that the switch that    *)
(* block_task owes is made (OwedOK).                                       *)
(***************************************************************************)
EXTENDS UserMode, SchedulerProofs, FiniteSetTheorems

-----------------------------------------------------------------------------
(* Arithmetic modulo the size of the ring.                                  *)

\* A number below the modulus is its own remainder.
LEMMA ModuloBelow ==
  ASSUME NEW n \in Nat \ {0}, NEW x \in 0..(n - 1)
  PROVE  x % n = x
OBVIOUS

\* A number in the next round loses one modulus.
LEMMA ModuloAbove ==
  ASSUME NEW n \in Nat \ {0}, NEW x \in n..(2 * n - 1)
  PROVE  x % n = x - n
BY SMTT(30)

\* The slot that lies i slots behind slot s.
LEMMA SlotBehind ==
  ASSUME NEW s \in Slot, NEW i \in Slot
  PROVE  (s + i) % KEYBOARD_BUFFER_SIZE =
           IF s + i < KEYBOARD_BUFFER_SIZE THEN s + i ELSE s + i - KEYBOARD_BUFFER_SIZE
<1>1. KEYBOARD_BUFFER_SIZE \in Nat \ {0, 1}
  BY KeyboardAssumption DEF KeyboardAssumption
<1>2. CASE s + i < KEYBOARD_BUFFER_SIZE
  <2>1. s + i \in 0..(KEYBOARD_BUFFER_SIZE - 1)
    BY <1>1, <1>2 DEF Slot
  <2> QED BY <1>1, <1>2, <2>1, ModuloBelow DEF Slot
<1>3. CASE s + i >= KEYBOARD_BUFFER_SIZE
  <2>1. s + i \in KEYBOARD_BUFFER_SIZE..(2 * KEYBOARD_BUFFER_SIZE - 1)
    BY <1>1, <1>3 DEF Slot
  <2> QED BY <1>1, <1>3, <2>1, ModuloAbove DEF Slot
<1> QED BY <1>1, <1>2, <1>3 DEF Slot

\* The index after s: wrapped to zero at the end.
LEMMA NextSlotIs ==
  ASSUME NEW s \in Slot
  PROVE  /\ NextSlot(s) \in Slot
         /\ NextSlot(s) = IF s = KEYBOARD_BUFFER_SIZE - 1 THEN 0 ELSE s + 1
<1>1. KEYBOARD_BUFFER_SIZE \in Nat \ {0, 1}
  BY KeyboardAssumption DEF KeyboardAssumption
<1>2. 1 \in Slot
  BY <1>1 DEF Slot
<1>3. (s + 1) % KEYBOARD_BUFFER_SIZE =
        IF s + 1 < KEYBOARD_BUFFER_SIZE THEN s + 1 ELSE s + 1 - KEYBOARD_BUFFER_SIZE
  BY <1>2, SlotBehind
<1> QED BY <1>1, <1>3 DEF NextSlot, Slot

-----------------------------------------------------------------------------
(* The invariant.                                                           *)

\* The variables of the ring in their types.
RingTypeOK ==
  /\ keyboard_buffer \in [Slot -> Char]
  /\ key_buffer_start \in Slot /\ key_buffer_end \in Slot
  /\ accepted \in Seq(Char)

\* The inductive invariant of the key ring.
RingInv == RingTypeOK /\ RingIsFifo

\* How many slots lie from s to e.
Distance(s, e) == (e + KEYBOARD_BUFFER_SIZE - s) % KEYBOARD_BUFFER_SIZE

\* The distance between two slots, without the modulus.
LEMMA DistanceIs ==
  ASSUME NEW s \in Slot, NEW e \in Slot
  PROVE  /\ Distance(s, e) \in Slot
         /\ Distance(s, e) = IF s <= e THEN e - s ELSE e + KEYBOARD_BUFFER_SIZE - s
<1> DEFINE d == e + KEYBOARD_BUFFER_SIZE - s
<1>1. KEYBOARD_BUFFER_SIZE \in Nat \ {0, 1}
  BY KeyboardAssumption DEF KeyboardAssumption
<1>2. CASE s <= e
  <2>1. d \in KEYBOARD_BUFFER_SIZE..(2 * KEYBOARD_BUFFER_SIZE - 1)
    BY <1>1, <1>2 DEF Slot
  <2> HIDE DEF d
  <2>2. d % KEYBOARD_BUFFER_SIZE = d - KEYBOARD_BUFFER_SIZE
    BY <1>1, <2>1, ModuloAbove
  <2> QED BY <1>1, <1>2, <2>2 DEF Distance, Slot, d
<1>3. CASE s > e
  <2>1. d \in 0..(KEYBOARD_BUFFER_SIZE - 1)
    BY <1>1, <1>3 DEF Slot
  <2> HIDE DEF d
  <2>2. d % KEYBOARD_BUFFER_SIZE = d
    BY <1>1, <2>1, ModuloBelow
  <2> QED BY <1>1, <1>3, <2>1, <2>2 DEF Distance, Slot, d
<1> QED BY <1>1, <1>2, <1>3 DEF Slot

\* The ring starts empty.
LEMMA RingInit == KbdInit => RingInv
<1> SUFFICES ASSUME KbdInit PROVE RingInv
  OBVIOUS
<1>1. KEYBOARD_BUFFER_SIZE \in Nat \ {0, 1} /\ (CHOOSE c \in Char : TRUE) \in Char
  BY KeyboardAssumption DEF KeyboardAssumption
<1>2. RingTypeOK
  BY <1>1 DEF KbdInit, RingTypeOK, Slot
<1>3. Stored = Distance(0, 0) /\ 0 \in Slot
  BY <1>1 DEF KbdInit, Stored, Distance, Slot
<1>4. Stored = 0
  BY <1>1, <1>3, DistanceIs
<1>5. RingIsFifo
  BY <1>4 DEF RingIsFifo, KbdInit
<1> QED BY <1>2, <1>5 DEF RingInv

\* A key that is stored fills the slot behind those in use.
LEMMA StoredKeepsRing ==
  ASSUME RingInv, KeyStored
  PROVE  RingInv'
<1> DEFINE n == KEYBOARD_BUFFER_SIZE
           s == key_buffer_start
           e == key_buffer_end
<1>1. n \in Nat \ {0, 1}
  BY KeyboardAssumption DEF KeyboardAssumption
<1>2. PICK c \in Char : /\ keyboard_buffer' = [keyboard_buffer EXCEPT ![e] = c]
                        /\ accepted' = Append(accepted, c)
  BY DEF KeyStored
<1>3. s' = s /\ e' = NextSlot(e) /\ e' # s
  BY DEF KeyStored, Full
<1>4. e' \in Slot /\ e' = IF e = n - 1 THEN 0 ELSE e + 1
  BY <1>3, NextSlotIs DEF RingInv, RingTypeOK
<1>5. RingTypeOK'
  BY <1>2, <1>3, <1>4 DEF RingInv, RingTypeOK
<1>6. Stored = Distance(s, e) /\ Stored' = Distance(s', e')
  BY DEF Stored, Distance
<1>7. /\ Stored \in Slot
      /\ Stored = IF s <= e THEN e - s ELSE e + n - s
  BY <1>6, DistanceIs DEF RingInv, RingTypeOK
<1>8. Stored' = IF s <= e' THEN e' - s ELSE e' + n - s
  BY <1>3, <1>4, <1>6, DistanceIs DEF RingInv, RingTypeOK
<1>9. Stored' = Stored + 1
  BY <1>1, <1>3, <1>4, <1>7, <1>8 DEF RingInv, RingTypeOK, Slot
<1>10. Len(accepted') = Stored'
  BY <1>2, <1>9 DEF RingInv, RingTypeOK, RingIsFifo
<1>11. ASSUME NEW i \in 1..Stored' PROVE accepted'[i] = keyboard_buffer'[(s' + i - 1) % n]
  <2>1. i - 1 \in Slot
    BY <1>1, <1>7, <1>9 DEF Slot
  <2>2. (s + (i - 1)) % n = IF s + (i - 1) < n THEN s + (i - 1) ELSE s + (i - 1) - n
    BY <2>1, SlotBehind DEF RingInv, RingTypeOK
  <2>3. s + i - 1 = s + (i - 1)
    BY DEF RingInv, RingTypeOK, Slot
  <2>4. CASE i = Stored'
    <3>1. (s + (i - 1)) % n = e
      BY <1>1, <1>7, <1>9, <2>2, <2>4 DEF RingInv, RingTypeOK, Slot
    <3>2. accepted'[i] = c
      BY <1>2, <1>9, <2>4 DEF RingInv, RingTypeOK, RingIsFifo
    <3> QED BY <1>2, <1>3, <2>3, <3>1, <3>2 DEF RingInv, RingTypeOK
  <2>5. CASE i # Stored'
    <3>1. i \in 1..Stored
      BY <1>7, <1>9, <2>5 DEF Slot
    <3>2. /\ (s + (i - 1)) % n # e
          /\ (s + (i - 1)) % n \in Slot
      BY <1>1, <1>7, <2>2, <3>1 DEF RingInv, RingTypeOK, Slot
    <3>3. accepted'[i] = accepted[i]
      BY <1>2, <3>1 DEF RingInv, RingTypeOK, RingIsFifo
    <3>4. accepted[i] = keyboard_buffer[(s + (i - 1)) % n]
      BY <2>3, <3>1 DEF RingInv, RingIsFifo
    <3> QED BY <1>2, <1>3, <2>3, <3>2, <3>3, <3>4 DEF RingInv, RingTypeOK
  <2> QED BY <2>4, <2>5
<1> QED BY <1>5, <1>10, <1>11 DEF RingInv, RingIsFifo

\* A character that is read leaves the first of the slots in use.
LEMMA ReadKeepsRing ==
  ASSUME RingInv, GetChar
  PROVE  RingInv'
<1> DEFINE n == KEYBOARD_BUFFER_SIZE
           s == key_buffer_start
           e == key_buffer_end
<1>1. n \in Nat \ {0, 1}
  BY KeyboardAssumption DEF KeyboardAssumption
<1>2. /\ s' = NextSlot(s) /\ e' = e /\ s # e
      /\ keyboard_buffer' = keyboard_buffer /\ accepted' = Tail(accepted)
  BY DEF GetChar, Empty
<1>3. s' \in Slot /\ s' = IF s = n - 1 THEN 0 ELSE s + 1
  BY <1>2, NextSlotIs DEF RingInv, RingTypeOK
<1>4. Stored = Distance(s, e) /\ Stored' = Distance(s', e')
  BY DEF Stored, Distance
<1>5. /\ Stored \in Slot
      /\ Stored = IF s <= e THEN e - s ELSE e + n - s
  BY <1>4, DistanceIs DEF RingInv, RingTypeOK
<1>6. Stored' = IF s' <= e THEN e - s' ELSE e + n - s'
  BY <1>2, <1>3, <1>4, DistanceIs DEF RingInv, RingTypeOK
<1>7. Stored' = Stored - 1 /\ Stored > 0
  BY <1>1, <1>2, <1>3, <1>5, <1>6 DEF RingInv, RingTypeOK, Slot
<1>8. accepted \in Seq(Char) /\ Len(accepted) = Stored /\ accepted # << >>
  BY <1>7 DEF RingInv, RingTypeOK, RingIsFifo
<1>9. /\ accepted' \in Seq(Char) /\ Len(accepted') = Stored'
      /\ \A i \in 1..Stored' : accepted'[i] = accepted[i + 1]
  BY <1>2, <1>7, <1>8
<1>10. RingTypeOK'
  BY <1>2, <1>3, <1>9 DEF RingInv, RingTypeOK
<1>11. ASSUME NEW i \in 1..Stored' PROVE accepted'[i] = keyboard_buffer'[(s' + i - 1) % n]
  <2>1. i - 1 \in Slot /\ i \in Slot /\ i + 1 \in 1..Stored
    BY <1>1, <1>5, <1>7 DEF Slot
  <2>2. (s + i) % n = IF s + i < n THEN s + i ELSE s + i - n
    BY <2>1, SlotBehind DEF RingInv, RingTypeOK
  <2>3. (s' + (i - 1)) % n = IF s' + (i - 1) < n THEN s' + (i - 1) ELSE s' + (i - 1) - n
    BY <1>3, <2>1, SlotBehind
  <2>4. (s' + (i - 1)) % n = (s + i) % n
    BY <1>1, <1>3, <2>1, <2>2, <2>3 DEF RingInv, RingTypeOK, Slot
  <2>5. accepted[i + 1] = keyboard_buffer[(s + (i + 1) - 1) % n]
    BY <2>1 DEF RingInv, RingIsFifo
  <2>6. s + (i + 1) - 1 = s + i /\ s' + i - 1 = s' + (i - 1)
    BY <1>3 DEF RingInv, RingTypeOK, Slot
  <2> QED BY <1>2, <1>9, <2>4, <2>5, <2>6
<1> QED BY <1>9, <1>10, <1>11 DEF RingInv, RingIsFifo

\* Nothing else touches the ring.
LEMMA RingUnchanged ==
  ASSUME RingInv, UNCHANGED ring
  PROVE  RingInv'
BY DEF RingInv, RingTypeOK, RingIsFifo, Stored, ring

\* Every step of the keyboard driver keeps the ring a queue.
LEMMA RingStep ==
  ASSUME RingInv, [KbdNext]_kbdVars
  PROVE  RingInv'
<1>1. KeyDropped \/ GetNothing \/ (Next /\ UNCHANGED <<ring, masked1>>) \/ UNCHANGED kbdVars
        => UNCHANGED ring
  BY DEF KeyDropped, GetNothing, kbdVars
<1> QED
  BY <1>1, StoredKeepsRing, ReadKeepsRing, RingUnchanged DEF KbdNext

-----------------------------------------------------------------------------
(* Theorem.                                                                 *)

\* keyboard.c 28-64: whatever the size of the ring, what lies between its two
\* indices is what was typed and not yet read, in order.
THEOREM RingCorrect == KbdSpec => []RingIsFifo
<1>1. RingInv /\ [KbdNext]_kbdVars => RingInv'
  BY RingStep
<1>2. RingInv => RingIsFifo
  BY DEF RingInv
<1> QED BY RingInit, <1>1, <1>2, PTL DEF KbdSpec

-----------------------------------------------------------------------------
(* The terminal: a call of terminal_putchar that nobody interrupts.         *)

Cells == [uc : Glyph \cup {" ", "NUL"}, color : 0..255]

\* What a cell at place (y, x) must be when the screen shows the lines t.
Fits(cell, t, y, x) ==
  IF InText(t, y, x) THEN cell.uc = t[y + 1][x + 1] /\ Visible(cell) ELSE ~Visible(cell)

\* The lines t, as far as the screen goes, are what s shows.
Shows(s, t) == \A y \in Row, x \in Column : Fits(s[y][x], t, y, x)

\* There are at most as many lines as the screen has, none is too long, and the
\* last one has room for a character.
TextFits ==
  /\ text \in Seq(Seq(Glyph)) /\ Len(text) \in 1..VGA_HEIGHT
  /\ \A i \in 1..Len(text) : Len(text[i]) <= VGA_WIDTH
  /\ Len(text[Len(text)]) < VGA_WIDTH

\* The inductive invariant of the terminal.
TermInv == TermTypeOK /\ TextFits /\ ScreenShowsText

\* vga.h 6-31: a character in the terminal's colours is seen, the cells of the
\* lines that tty.c clears are not.
LEMMA CellsSeen ==
  /\ vga_entry(" ", terminal_color) \in Cells /\ ~Visible(vga_entry(" ", terminal_color))
  /\ vga_entry("NUL", 0) \in Cells /\ ~Visible(vga_entry("NUL", 0))
  /\ \A c \in Glyph : /\ vga_entry(c, terminal_color) \in Cells
                       /\ vga_entry(c, terminal_color).uc = c
                       /\ Visible(vga_entry(c, terminal_color))
<1>1. terminal_color = 7 /\ 7 % 16 = 7 /\ 7 \div 16 = 0 /\ 7 \in 0..255 /\ 0 \in 0..255
  BY DEF terminal_color, vga_entry_color, VGA_COLOR_LIGHT_GREY, VGA_COLOR_BLACK
<1>2. Glyph \cap {"newline", " ", "NUL"} = {}
  BY TerminalAssumption DEF TerminalAssumption
<1>3. ASSUME NEW c \in Glyph
      PROVE  /\ vga_entry(c, terminal_color) \in Cells
             /\ vga_entry(c, terminal_color).uc = c
             /\ Visible(vga_entry(c, terminal_color))
  <2>1. vga_entry(c, terminal_color) = [uc |-> c, color |-> 7]
    BY <1>1 DEF vga_entry
  <2>2. c \notin {" ", "NUL"}
    BY <1>2
  <2> DEFINE entry == [uc |-> c, color |-> 7]
  <2>5. entry.uc = c /\ entry.color = 7
    OBVIOUS
  <2> HIDE DEF entry
  <2>6. entry.color % 16 = 7 /\ entry.color \div 16 = 0
    BY <1>1, <2>5
  <2>3. Visible(entry)
    <3>1. entry.uc \notin {" ", "NUL"}
      BY <2>2, <2>5
    <3>2. entry.color % 16 # entry.color \div 16
      BY <2>6
    <3> QED BY <3>1, <3>2 DEF Visible
  <2>4. entry \in Cells
    BY <1>1 DEF Cells, entry
  <2> QED BY <2>1, <2>3, <2>4, <2>5 DEF entry
<1>4. /\ vga_entry(" ", terminal_color) \in Cells /\ ~Visible(vga_entry(" ", terminal_color))
      /\ vga_entry("NUL", 0) \in Cells /\ ~Visible(vga_entry("NUL", 0))
  BY <1>1 DEF vga_entry, Visible, Cells
<1> QED BY <1>3, <1>4

\* The two registers of update_cursor hold every position of the screen.
LEMMA TwoBytes ==
  ASSUME NEW n \in Nat, n < 65536
  PROVE  /\ n % 256 \in 0..255 /\ (n \div 256) % 256 \in 0..255
         /\ ((n \div 256) % 256) * 256 + (n % 256) = n
OBVIOUS

\* The number of a position on the screen fits the two cursor registers.
LEMMA OnScreen ==
  ASSUME NEW y \in Row, NEW x \in Column
  PROVE  y * VGA_WIDTH + x \in Nat /\ y * VGA_WIDTH + x < 65536
<1>1. VGA_WIDTH \in Nat \ {0} /\ VGA_HEIGHT \in Nat \ {0}
  BY TerminalAssumption DEF TerminalAssumption
<1>6. VGA_WIDTH * VGA_HEIGHT <= 65536
  BY <1>1, CursorAssumption DEF CursorAssumption
<1>2. x \in Nat /\ x < VGA_WIDTH /\ y \in Nat /\ y <= VGA_HEIGHT - 1
  BY <1>1 DEF Row, Column
<1>3. y * VGA_WIDTH <= (VGA_HEIGHT - 1) * VGA_WIDTH
  BY <1>1, <1>2
<1>4. (VGA_HEIGHT - 1) * VGA_WIDTH = VGA_WIDTH * VGA_HEIGHT - VGA_WIDTH
  BY <1>1
<1>5. y * VGA_WIDTH \in Nat
  BY <1>1, <1>2
<1> HIDE DEF Row, Column
<1> QED BY <1>1, <1>2, <1>3, <1>4, <1>5, <1>6

\* update_cursor, called with a place of the screen, leaves the cursor there.
LEMMA CursorMoves ==
  ASSUME NEW y \in Row, NEW x \in Column, update_cursor(x, y)
  PROVE  /\ cursor' \in [low : 0..255, high : 0..255]
         /\ cursor'.high * 256 + cursor'.low = y * VGA_WIDTH + x
<1> DEFINE n == y * VGA_WIDTH + x
<1>1. n \in Nat /\ n < 65536
  BY OnScreen
<1>2. cursor' = [low |-> n % 256, high |-> (n \div 256) % 256]
  BY DEF update_cursor
<1> HIDE DEF n
<1>3. /\ n % 256 \in 0..255 /\ (n \div 256) % 256 \in 0..255
      /\ ((n \div 256) % 256) * 256 + (n % 256) = n
  BY <1>1, TwoBytes
<1>4. /\ cursor' \in [low : 0..255, high : 0..255]
      /\ cursor'.high * 256 + cursor'.low = n
  BY <1>2, <1>3
<1> QED BY <1>4 DEF n

\* The screen starts blank, with the cursor at the top left.
LEMMA TermInvInit == TermInit => TermInv
<1> SUFFICES ASSUME TermInit PROVE TermInv
  OBVIOUS
<1>1. VGA_WIDTH \in Nat \ {0} /\ VGA_HEIGHT \in Nat \ {0}
  BY TerminalAssumption DEF TerminalAssumption
<1>2. text = << << >> >> /\ Len(text) = 1 /\ text[1] = << >> /\ Len(text[1]) = 0
  BY DEF TermInit
<1>3. TextFits
  BY <1>1, <1>2 DEF TextFits
<1>4. TermTypeOK
  <2>1. screen \in [Row -> [Column -> Cells]]
    BY CellsSeen DEF TermInit, BlankLine
  <2>2. terminal_row \in Row /\ terminal_column \in Column
    BY <1>1 DEF TermInit, Row, Column
  <2>3. cursor \in [low : 0..255, high : 0..255]
    BY DEF TermInit
  <2> QED BY <2>1, <2>2, <2>3 DEF TermTypeOK, Cells
<1>5. ScreenShowsText
  <2>1. \A y \in Row, x \in Column : ~Visible(screen[y][x])
    BY CellsSeen DEF TermInit, BlankLine
  <2>2. ASSUME NEW y \in Row, y < 1 PROVE y + 1 = 1
    BY <1>1, <2>2 DEF Row
  <2>3. ASSUME NEW y \in Row, NEW x \in Column
        PROVE  ~InText(text, y, x)
    BY <1>1, <1>2, <2>2 DEF Row, Column, InText
  <2>4. cursor.high * 256 + cursor.low = terminal_row * VGA_WIDTH + terminal_column
    BY <1>1 DEF TermInit
  <2> QED BY <1>2, <2>1, <2>3, <2>4 DEF TermInit, ScreenShowsText
<1> QED BY <1>3, <1>4, <1>5 DEF TermInv

\* The open line after character c.
Open(c) == IF c = "newline" THEN text[Len(text)] ELSE Append(text[Len(text)], c)
Put(c)  == IF c = "newline" THEN screen
           ELSE [screen EXCEPT ![terminal_row][terminal_column] = vga_entry(c, terminal_color)]
\* The text with a character added to its last line.
Opened(c) == [text EXCEPT ![Len(text)] = Open(c)]

\* Before the line ends and the screen scrolls, the screen shows the text with
\* the character at the end of its last line.
LEMMA PutShows ==
  ASSUME TermInv, NEW c \in Glyph \cup {"newline"}
  PROVE  /\ Open(c) \in Seq(Glyph)
         /\ Len(Open(c)) = IF c = "newline" THEN terminal_column ELSE terminal_column + 1
         /\ Opened(c) \in Seq(Seq(Glyph)) /\ Len(Opened(c)) = Len(text)
         /\ Opened(c)[Len(text)] = Open(c)
         /\ \A i \in 1..Len(text) : Len(Opened(c)[i]) <= VGA_WIDTH
         /\ Put(c) \in [Row -> [Column -> Cells]]
         /\ Shows(Put(c), Opened(c))
<1> DEFINE k == Len(text)
           last == text[k]
<1>1. VGA_WIDTH \in Nat \ {0} /\ VGA_HEIGHT \in Nat \ {0} /\ "newline" \notin Glyph
  BY TerminalAssumption DEF TerminalAssumption
<1>2. /\ text \in Seq(Seq(Glyph)) /\ k \in 1..VGA_HEIGHT /\ last \in Seq(Glyph)
      /\ Len(last) < VGA_WIDTH
      /\ terminal_row = k - 1 /\ terminal_column = Len(last)
  BY DEF TermInv, TextFits, ScreenShowsText
<1>3. Open(c) \in Seq(Glyph)
  BY <1>2 DEF Open
<1>4. Len(Open(c)) = IF c = "newline" THEN terminal_column ELSE terminal_column + 1
  BY <1>2 DEF Open
<1>5. Opened(c) \in Seq(Seq(Glyph)) /\ Len(Opened(c)) = k /\ Opened(c)[k] = Open(c)
  BY <1>2, <1>3 DEF Opened
<1>6. \A i \in 1..k : i # k => Opened(c)[i] = text[i]
  BY <1>2 DEF Opened
<1>7. \A i \in 1..k : Len(Opened(c)[i]) <= VGA_WIDTH
  BY <1>1, <1>2, <1>4, <1>5, <1>6 DEF TermInv, TextFits
<1>8. screen \in [Row -> [Column -> Cells]] /\ terminal_row \in Row /\ terminal_column \in Column
  BY DEF TermInv, TermTypeOK, Cells
<1>9. Put(c) \in [Row -> [Column -> Cells]]
  <2>1. c # "newline" => vga_entry(c, terminal_color) \in Cells
    BY CellsSeen
  <2> QED BY <1>8, <2>1 DEF Put
<1>10. Shows(Put(c), Opened(c))
  <2> SUFFICES ASSUME NEW y \in Row, NEW x \in Column
               PROVE  Fits(Put(c)[y][x], Opened(c), y, x)
    BY DEF Shows
  <2>1. Fits(screen[y][x], text, y, x)
    BY DEF TermInv, ScreenShowsText, Fits
  <2>2. CASE y # terminal_row
    <3>1. Put(c)[y][x] = screen[y][x]
      BY <1>8, <2>2 DEF Put
    <3>2. y < k => y + 1 \in 1..k /\ y + 1 # k
      BY <1>1, <1>2, <2>2 DEF Row
    <3> QED BY <1>5, <1>6, <2>1, <3>1, <3>2 DEF Fits, InText
  <2>3. CASE y = terminal_row
    <3>1. y < k /\ y + 1 = k
      BY <1>2, <2>3
    <3>2. CASE c = "newline"
      BY <1>5, <2>1, <3>1, <3>2 DEF Put, Open, Fits, InText
    <3>3. CASE c # "newline" /\ x = terminal_column
      <4>1. Put(c)[y][x] = vga_entry(c, terminal_color)
        BY <1>8, <2>3, <3>3 DEF Put
      <4>2. Open(c)[x + 1] = c /\ x < Len(Open(c))
        BY <1>2, <1>4, <3>3 DEF Open
      <4>3. Put(c)[y][x].uc = c /\ Visible(Put(c)[y][x])
        BY CellsSeen, <3>3, <4>1
      <4> QED BY <1>5, <3>1, <4>2, <4>3 DEF Fits, InText
    <3>4. CASE c # "newline" /\ x # terminal_column
      <4>1. Put(c)[y][x] = screen[y][x]
        BY <1>8, <2>3, <3>4 DEF Put
      <4>2. x < Len(Open(c)) <=> x < Len(last)
        BY <1>1, <1>2, <1>4, <3>4 DEF Column
      <4>3. x < Len(last) => Open(c)[x + 1] = last[x + 1]
        BY <1>1, <1>2, <3>4 DEF Open, Column
      <4> QED BY <1>5, <2>1, <3>1, <4>1, <4>2, <4>3 DEF Fits, InText
    <3> QED BY <3>2, <3>3, <3>4
  <2> QED BY <2>2, <2>3
<1> QED BY <1>3, <1>4, <1>5, <1>7, <1>9, <1>10

\* A line more at the end.
LEMMA LineAdded ==
  ASSUME NEW S, NEW t \in Seq(S), NEW line \in S
  PROVE  /\ t \o <<line>> \in Seq(S) /\ Len(t \o <<line>>) = Len(t) + 1
         /\ (t \o <<line>>)[Len(t) + 1] = line
         /\ \A i \in 1..Len(t) : (t \o <<line>>)[i] = t[i]
OBVIOUS

\* tty.c 106-126: terminal_putchar keeps text and screen in step, within the
\* bounds of the screen, for a character, a newline, a full line and a full
\* screen.
LEMMA PutCharKeeps ==
  ASSUME TermInv, NEW c \in Glyph \cup {"newline"}, PutChar(c)
  PROVE  TermInv'
<1> DEFINE k     == Len(text)
           ends  == c = "newline" \/ Len(Open(c)) = VGA_WIDTH
           empty == << << >> >>
<1>1. VGA_WIDTH \in Nat \ {0} /\ VGA_HEIGHT \in Nat \ {0}
  BY TerminalAssumption DEF TerminalAssumption
<1>2. /\ k \in 1..VGA_HEIGHT /\ terminal_row = k - 1 /\ terminal_row \in Row
      /\ terminal_column \in Column
  BY DEF TermInv, TextFits, ScreenShowsText, TermTypeOK
<1>3. /\ Open(c) \in Seq(Glyph)
      /\ Len(Open(c)) = IF c = "newline" THEN terminal_column ELSE terminal_column + 1
      /\ Opened(c) \in Seq(Seq(Glyph)) /\ Len(Opened(c)) = k /\ Opened(c)[k] = Open(c)
      /\ \A i \in 1..k : Len(Opened(c)[i]) <= VGA_WIDTH
      /\ Put(c) \in [Row -> [Column -> Cells]]
      /\ Shows(Put(c), Opened(c))
  BY PutShows
<1>4. text' = IF Len(Opened(c) \o (IF ends THEN empty ELSE << >>)) > VGA_HEIGHT
              THEN Tail(Opened(c) \o (IF ends THEN empty ELSE << >>))
              ELSE Opened(c) \o (IF ends THEN empty ELSE << >>)
  BY DEF PutChar, terminal_putentryat, Written, Open, Opened
<1>5. ends <=> (IF c = "newline" THEN VGA_WIDTH ELSE terminal_column + 1) = VGA_WIDTH
  BY <1>1, <1>2, <1>3
<1>6. /\ terminal_column' = IF ends THEN 0 ELSE terminal_column + 1
      /\ terminal_row' = IF ends /\ k # VGA_HEIGHT THEN terminal_row + 1 ELSE terminal_row
      /\ screen' = IF ends /\ k = VGA_HEIGHT THEN Scrolled(Put(c)) ELSE Put(c)
  <2>1. terminal_row + 1 = VGA_HEIGHT <=> k = VGA_HEIGHT
    BY <1>1, <1>2
  <2> QED BY <1>5, <2>1 DEF PutChar, terminal_putentryat, Put
<1>10. Len(<< >>) = 0
  OBVIOUS
<1>11. \A t \in Seq(Seq(Glyph)) :
         /\ t \o empty \in Seq(Seq(Glyph)) /\ Len(t \o empty) = Len(t) + 1
         /\ (t \o empty)[Len(t) + 1] = << >>
         /\ \A i \in 1..Len(t) : (t \o empty)[i] = t[i]
  <2>1. << >> \in Seq(Glyph)
    OBVIOUS
  <2> QED BY <2>1, LineAdded
<1> HIDE DEF empty
<1> HIDE DEF ends
<1>12. update_cursor(terminal_column', terminal_row')
  BY DEF PutChar
<1>7. CASE ~ends
  <2>1. text' = Opened(c)
    BY <1>1, <1>2, <1>3, <1>4, <1>7
  <2>2. c # "newline" /\ Len(Open(c)) = terminal_column + 1
    BY <1>3, <1>7 DEF ends
  <2>3. Len(Open(c)) < VGA_WIDTH
    BY <1>1, <1>2, <1>3, <1>7, <2>2 DEF ends, Column
  <2>4. TextFits'
    BY <1>2, <1>3, <2>1, <2>3 DEF TextFits
  <2>5. screen' = Put(c) /\ terminal_row' = terminal_row /\ terminal_column' = terminal_column + 1
    BY <1>6, <1>7
  <2>6. TermTypeOK'
    <3>1. terminal_row' \in Row /\ terminal_column' \in Column
      BY <1>1, <1>2, <2>2, <2>3, <2>5 DEF Column
    <3> QED BY <1>3, <1>12, <2>5, <3>1, CursorMoves DEF TermTypeOK, Cells
  <2>7. ScreenShowsText'
    <3>1. terminal_row' \in Row /\ terminal_column' \in Column
      BY <2>6 DEF TermTypeOK
    <3>2. cursor'.high * 256 + cursor'.low = terminal_row' * VGA_WIDTH + terminal_column'
      BY <1>12, <3>1, CursorMoves
    <3> QED BY <1>2, <1>3, <2>1, <2>2, <2>5, <3>2 DEF ScreenShowsText, Shows, Fits
  <2> QED BY <2>4, <2>6, <2>7 DEF TermInv
<1>8. CASE ends /\ k # VGA_HEIGHT
  <2>1. text' = Opened(c) \o empty
    BY <1>1, <1>2, <1>3, <1>4, <1>8, <1>11
  <2>2. /\ text' \in Seq(Seq(Glyph)) /\ Len(text') = k + 1
        /\ text'[k + 1] = << >> /\ \A i \in 1..k : text'[i] = Opened(c)[i]
    BY <1>3, <1>11, <2>1
  <2>3. k + 1 \in 1..VGA_HEIGHT
    BY <1>1, <1>2, <1>8
  <2>4. \A i \in 1..(k + 1) : Len(text'[i]) <= VGA_WIDTH
    <3> SUFFICES ASSUME NEW i \in 1..(k + 1) PROVE Len(text'[i]) <= VGA_WIDTH
      OBVIOUS
    <3>1. CASE i = k + 1
      BY <1>1, <1>10, <2>2, <3>1
    <3>2. CASE i # k + 1
      <4>1. i \in 1..k
        BY <1>2, <3>2
      <4> QED BY <1>3, <2>2, <4>1
    <3> QED BY <3>1, <3>2
  <2>5. TextFits'
    BY <1>1, <2>2, <2>3, <2>4 DEF TextFits
  <2>6. screen' = Put(c) /\ terminal_row' = terminal_row + 1 /\ terminal_column' = 0
    BY <1>6, <1>8
  <2>7. TermTypeOK'
    <3>1. terminal_row' \in Row /\ terminal_column' \in Column
      BY <1>1, <1>2, <2>3, <2>6 DEF Row, Column
    <3> QED BY <1>3, <1>12, <2>6, <3>1, CursorMoves DEF TermTypeOK, Cells
  <2>8. ASSUME NEW y \in Row, NEW x \in Column
        PROVE  Fits(screen'[y][x], text', y, x)
    <3>1. Fits(screen'[y][x], Opened(c), y, x)
      BY <1>3, <2>6 DEF Shows
    <3>2. CASE y < k
      <4>1. y + 1 \in 1..k
        BY <1>1, <1>2, <3>2 DEF Row
      <4>2. text'[y + 1] = Opened(c)[y + 1]
        BY <2>2, <4>1
      <4>3. y < Len(text') /\ y < Len(Opened(c))
        BY <1>2, <1>3, <2>2, <3>2 DEF Row
      <4> QED BY <3>1, <4>2, <4>3 DEF Fits, InText
    <3>3. CASE y = k
      <4>1. Len(text'[y + 1]) = 0 /\ ~(x < 0) /\ ~(y < k)
        BY <1>1, <1>2, <2>2, <3>3 DEF Column
      <4> QED BY <1>3, <3>1, <4>1 DEF Fits, InText
    <3>4. CASE y > k
      <4>1. ~(y < Len(text')) /\ ~(y < k)
        BY <1>1, <1>2, <2>2, <3>4 DEF Row
      <4> QED BY <1>3, <3>1, <4>1 DEF Fits, InText
    <3> QED BY <1>1, <1>2, <3>2, <3>3, <3>4 DEF Row
  <2>9. ScreenShowsText'
    <3>1. terminal_row' \in Row /\ terminal_column' \in Column
      BY <2>7 DEF TermTypeOK
    <3>2. cursor'.high * 256 + cursor'.low = terminal_row' * VGA_WIDTH + terminal_column'
      BY <1>12, <3>1, CursorMoves
    <3> QED BY <1>2, <1>10, <2>2, <2>6, <2>8, <3>2 DEF ScreenShowsText, Fits
  <2> QED BY <2>5, <2>7, <2>9 DEF TermInv
<1>9. CASE ends /\ k = VGA_HEIGHT
  <2> DEFINE all == Opened(c) \o empty
  <2>1. /\ all \in Seq(Seq(Glyph)) /\ Len(all) = k + 1
        /\ all[k + 1] = << >> /\ \A i \in 1..k : all[i] = Opened(c)[i]
    BY <1>3, <1>11
  <2>2. text' = Tail(all)
    BY <1>1, <1>2, <1>4, <1>9, <2>1
  <2> HIDE DEF all
  <2>3. /\ text' \in Seq(Seq(Glyph)) /\ Len(text') = k
        /\ \A i \in 1..k : text'[i] = all[i + 1]
    BY <1>2, <2>1, <2>2
  <2>4. text'[k] = << >> /\ \A i \in 1..k : i < k => text'[i] = Opened(c)[i + 1]
    <3>1. text'[k] = << >>
      BY <1>1, <1>9, <2>1, <2>3
    <3>2. ASSUME NEW i \in 1..k, i < k PROVE text'[i] = Opened(c)[i + 1]
      <4>1. i + 1 \in 1..k
        BY <1>2, <3>2
      <4> QED BY <2>1, <2>3, <4>1
    <3> QED BY <3>1, <3>2
  <2>5. \A i \in 1..k : Len(text'[i]) <= VGA_WIDTH
    <3> SUFFICES ASSUME NEW i \in 1..k PROVE Len(text'[i]) <= VGA_WIDTH
      OBVIOUS
    <3>1. CASE i = k
      BY <1>1, <1>10, <2>4, <3>1
    <3>2. CASE i # k
      <4>1. i < k /\ i + 1 \in 1..k
        BY <1>2, <3>2
      <4> QED BY <1>3, <2>4, <4>1
    <3> QED BY <3>1, <3>2
  <2>6. TextFits'
    BY <1>1, <1>2, <2>3, <2>4, <2>5 DEF TextFits
  <2>7. screen' = Scrolled(Put(c)) /\ terminal_row' = terminal_row /\ terminal_column' = 0
    BY <1>6, <1>9
  <2>8. TermTypeOK'
    <3>1. \A y \in Row : y # VGA_HEIGHT - 1 => y + 1 \in Row
      BY <1>1 DEF Row
    <3>2. screen' \in [Row -> [Column -> Cells]]
      BY <1>3, <2>7, <3>1, CellsSeen DEF Scrolled, ZeroLine
    <3>3. terminal_row' \in Row /\ terminal_column' \in Column
      BY <1>1, <1>2, <2>7 DEF Column
    <3> QED BY <1>12, <3>2, <3>3, CursorMoves DEF TermTypeOK, Cells
  <2>9. ASSUME NEW y \in Row, NEW x \in Column
        PROVE  Fits(screen'[y][x], text', y, x)
    <3>1. CASE y = VGA_HEIGHT - 1
      <4>1. ~Visible(screen'[y][x])
        BY <2>7, <3>1, CellsSeen DEF Scrolled, ZeroLine
      <4>2. y + 1 = k /\ Len(text'[y + 1]) = 0 /\ ~(x < 0)
        BY <1>1, <1>9, <2>4, <3>1 DEF Column
      <4> QED BY <4>1, <4>2 DEF Fits, InText
    <3>2. CASE y # VGA_HEIGHT - 1
      <4>1. y + 1 \in Row /\ y < k /\ y + 1 \in 1..k /\ y + 1 < k /\ (y + 1) + 1 = y + 2
        BY <1>1, <1>9, <3>2 DEF Row
      <4>2. screen'[y][x] = Put(c)[y + 1][x]
        BY <2>7, <3>2 DEF Scrolled
      <4>3. Fits(Put(c)[y + 1][x], Opened(c), y + 1, x)
        BY <1>3, <4>1 DEF Shows
      <4>4. text'[y + 1] = Opened(c)[(y + 1) + 1]
        BY <2>4, <4>1
      <4> QED BY <1>3, <2>3, <4>1, <4>2, <4>3, <4>4 DEF Fits, InText
    <3> QED BY <3>1, <3>2
  <2>10. ScreenShowsText'
    <3>1. terminal_row' \in Row /\ terminal_column' \in Column
      BY <2>8 DEF TermTypeOK
    <3>2. cursor'.high * 256 + cursor'.low = terminal_row' * VGA_WIDTH + terminal_column'
      BY <1>12, <3>1, CursorMoves
    <3> QED BY <1>2, <1>10, <2>3, <2>4, <2>7, <2>9, <3>2 DEF ScreenShowsText, Fits
  <2> QED BY <2>6, <2>8, <2>10 DEF TermInv
<1> QED BY <1>7, <1>8, <1>9

-----------------------------------------------------------------------------
(* The key ring under the whole composition.                                *)

\* Only key presses and getchar touch the ring.
LEMMA UserRingStep ==
  ASSUME RingInv, [UNext]_uvars
  PROVE  RingInv'
<1>1. CASE UKeyIRQ
  <2>1. CASE KeyStored
    BY <2>1, StoredKeepsRing
  <2>2. CASE KeyDropped
    BY <2>2, RingUnchanged DEF KeyDropped
  <2> QED BY <1>1, <2>1, <2>2 DEF UKeyIRQ
<1>2. CASE SysGetChar
  <2>1. CASE GetChar
    BY <2>1, ReadKeepsRing
  <2>2. CASE GetNothing
    BY <2>2, RingUnchanged DEF GetNothing
  <2> QED BY <1>2, <2>1, <2>2 DEF SysGetChar
<1>3. CASE UKernelStep \/ USleep \/ UTimerIRQ \/ UHandlerStep \/ SysExit \/ SysFork
  <2>1. UNCHANGED ring
    BY <1>3 DEF UKernelStep, USleep, UTimerIRQ, UHandlerStep, SysExit, SysFork, Keep
  <2> QED BY <2>1, RingUnchanged
<1>4. CASE GetToRing3 \/ SysPutChar \/ PrintBegin \/ PrintEnd \/ UNCHANGED uvars
  <2>1. UNCHANGED ring
    BY <1>4 DEF GetToRing3, SysPutChar, PrintBegin, PrintEnd, uvars, kbdVars
  <2> QED BY <2>1, RingUnchanged
<1> QED BY <1>1, <1>2, <1>3, <1>4 DEF UNext

\* keyboard.c 28-64, do_syscall.s: whatever the size of the ring, the threads
\* that read and the interrupts that come between, what lies between the two
\* indices is what was typed and not yet read, in order.
THEOREM UserRingCorrect == USpec => []RingIsFifo
<1>1. UserInit => RingInv
  BY RingInit DEF UserInit
<1>2. RingInv /\ [UNext]_uvars => RingInv'
  BY UserRingStep
<1>3. RingInv => RingIsFifo
  BY DEF RingInv
<1> QED BY <1>1, <1>2, <1>3, PTL DEF USpec

-----------------------------------------------------------------------------

\* What the screen shows is followed up to the first race.
ScreenInv == raced \/ TermInv

\* A step that leaves the terminal alone keeps its invariant.
LEMMA TerminalUnchanged ==
  ASSUME TermInv, UNCHANGED terminal
  PROVE  TermInv'
BY DEF TermInv, TermTypeOK, TextFits, ScreenShowsText, terminal

\* A character that is shown, by a thread that did not race.
LEMMA ShownKeeps ==
  ASSUME ScreenInv, NEW c \in Glyph \cup {"newline"}, Shown(c), raced => raced'
  PROVE  ScreenInv'
<1>1. CASE raced'
  BY <1>1 DEF ScreenInv
<1>2. CASE ~raced'
  BY <1>2, PutCharKeeps DEF ScreenInv, Shown
<1> QED BY <1>1, <1>2

\* Every step keeps the screen right until two threads have been in
\* terminal_putchar at once.
LEMMA ScreenStep ==
  ASSUME ScreenInv, [UNext]_uvars
  PROVE  ScreenInv'
<1>1. CASE SysPutChar
  BY <1>1, ShownKeeps DEF SysPutChar, Race
<1>2. CASE PrintEnd
  BY <1>2, ShownKeeps DEF PrintEnd
<1>3. CASE PrintBegin
  BY <1>3, TerminalUnchanged DEF PrintBegin, Race, ScreenInv, terminal
<1>4. CASE UKernelStep \/ USleep \/ UTimerIRQ \/ UHandlerStep \/ SysExit \/ SysFork
  <2>1. UNCHANGED print
    BY <1>4 DEF UKernelStep, USleep, UTimerIRQ, UHandlerStep, SysExit, SysFork, Keep
  <2> QED BY <2>1, TerminalUnchanged DEF ScreenInv, print
<1>5. CASE UKeyIRQ \/ GetToRing3 \/ SysGetChar \/ UNCHANGED uvars
  <2>1. UNCHANGED print
    BY <1>5 DEF UKeyIRQ, GetToRing3, SysGetChar, uvars
  <2> QED BY <2>1, TerminalUnchanged DEF ScreenInv, print
<1> QED BY <1>1, <1>2, <1>3, <1>4, <1>5 DEF UNext

\* tty.c 71-126: for every width and height, until two threads are in
\* terminal_putchar at once, the screen shows the last lines written and the
\* cursor stands behind them.
THEOREM ScreenCorrect == USpec => []ScreenUnlessRaced
<1>1. UserInit => ScreenInv
  BY TermInvInit DEF UserInit, ScreenInv
<1>2. ScreenInv /\ [UNext]_uvars => ScreenInv'
  BY ScreenStep
<1>3. ScreenInv => ScreenUnlessRaced
  BY DEF ScreenInv, TermInv, ScreenUnlessRaced
<1> QED BY <1>1, <1>2, <1>3, PTL DEF USpec

-----------------------------------------------------------------------------
(* Interrupt flag and locks when a key press unmasks IRQ0.                  *)

\* The scheduler's variables in their types.  Unlike in TypeOK the lock
\* counter is any integer here: a key press unmasks IRQ0 under the lock, and
\* the counter then goes as high as there are threads switched away from.
KernelTypeOK ==
  /\ current_task_TCB \in Thread
  /\ state \in [Thread -> State] /\ lists \in [ListName -> Seq(Thread)]
  /\ irq_disable_counter \in Int /\ masked \in BOOLEAN
  /\ postpone_task_switches_counter \in Int
  /\ pc \in [Thread -> Label] /\ call \in [Thread -> Call]
  /\ target \in [Thread -> Thread]
  /\ isr \in [Thread -> {"none", "walk", "tail", "unlock"}]

\* The variables of the CPU in their types.
CpuTypeOK ==
  /\ mode \in [Thread -> Mode] /\ saved \in [Thread -> BOOLEAN] /\ interrupts \in BOOLEAN

\* A TCB that no thread has is at its entry point, in no service.
BlankOK ==
  \A t \in Thread : state[t] = "NONE" =>
    t # Current /\ pc[t] = "start" /\ call[t] = "none" /\ isr[t] = "none"

\* Wherever a thread was switched away from, it has at least one lock to give
\* back and is not between lock_stuff and unlock_stuff, and only the running
\* thread is in the walk of the sleeping list.  It takes the place of
\* LockBalance, which a key press breaks.
SwitchedOK ==
  /\ \A t \in Thread \ {Current} : Held(t) >= 1 /\ ~InStuff(t) /\ isr[t] \in {"none", "unlock"}
  /\ postpone_task_switches_counter = IF InStuff(Current) THEN 1 ELSE 0
  /\ isr[Current] = "walk" => lists["sleeping"] # << >>

\* The flag that the CPU has, and the flag that every other thread finds in
\* the RFLAGS it pops, are off exactly in the timer handler and in sys_exit,
\* which only a thread in ring 3 calls and which no timer interrupts.
FlagOK ==
  /\ \A t \in Thread : call[t] = "exit" => mode[t] = "user" /\ isr[t] = "none"
  /\ interrupts <=> isr[Current] = "none" /\ call[Current] # "exit"
  /\ \A t \in Thread \ {Current} :
       New(t) \/ (saved[t] <=> isr[t] = "none" /\ call[t] # "exit")

\* The inductive invariant of threads, interrupt flag and ring 3.
CpuInv == KernelTypeOK /\ CpuTypeOK /\ CallOK /\ BlankOK /\ SwitchedOK /\ TerminatedOK /\ FlagOK

\* The steps of the scheduler that the user mode model takes.
Services == KernelStep \/ SleepCall \/ ExitCall \/ Fork \/ TimerIRQ \/ HandlerStep

\* Only the clean task changes where another thread is.
LEMMA OthersStay ==
  ASSUME KernelTypeOK, Services, ~Reclaim
  PROVE  \A t \in Thread \ {Current} : pc'[t] = pc[t] /\ call'[t] = call[t] /\ isr'[t] = isr[t]
<1> USE DEF Current
<1>1. CASE TimerIRQ \/ HandlerStep
  BY <1>1 DEF KernelTypeOK, TimerIRQ, HandlerStep, WalkWake, WalkNext,
     WalkEnd, HookTail, HookReturn, service, handler
<1>2. CASE SleepCall \/ ExitCall \/ Fork \/ CleanCall
  BY <1>2 DEF KernelTypeOK, SleepCall, ExitCall, Fork, CleanCall, StuffEnter,
     Enter, Goto, service, handler
<1>3. CASE KernelStep /\ ~CleanCall
  BY <1>3 DEF KernelTypeOK, KernelStep, StartUp, SectionLeave, SleepPast,
     SleepSet, ExitWakeClean, ReclaimDone, BlockLock, BlockState, BlockLink,
     BlockSchedule, BlockUnlock, UnblockLock, UnblockMove, UnblockUnlock,
     UnlockPostpone, UnlockIrq, Return, Goto, service, handler
<1> QED BY <1>1, <1>2, <1>3 DEF Services

\* A thread that the clean task frees is past its last switch.
LEMMA ReclaimedThread ==
  ASSUME KernelTypeOK, SwitchedOK, TerminatedOK, Reclaim, NEW dead, dead = Head(lists["terminated"])
  PROVE  /\ dead \in Thread /\ dead # Current
         /\ pc[dead] = "stuff_irq" /\ call[dead] = "exit" /\ isr[dead] = "none"
         /\ pc'  = [pc EXCEPT ![dead] = "start"] /\ call' = [call EXCEPT ![dead] = "none"]
         /\ isr' = isr /\ state' = [state EXCEPT ![dead] = "NONE"] /\ Current' = Current
<1> USE DEF Current
<1>1. lists["terminated"] # << >> /\ call[Current] = "clean"
  BY DEF Reclaim, In
<1>2. lists["terminated"] \in Seq(Task) /\ dead \in Task /\ 1 \in 1..Len(lists["terminated"])
      /\ lists["terminated"][1] = dead
  BY <1>1 DEF TerminatedOK
<1>3. dead \in Thread /\ call[dead] = "exit" /\ isr[dead] = "none" /\ pc[dead] \in ExitLabel
  BY <1>2 DEF TerminatedOK, Thread
<1>4. dead # Current
  BY <1>1, <1>3
<1>5. Held(dead) >= 1 /\ ~InStuff(dead)
  BY <1>3, <1>4 DEF SwitchedOK
<1>6. pc[dead] \in {"stuff_irq", "wild"}
  BY <1>3, <1>5 DEF InStuff, StuffCall
<1>7. pc[dead] # "wild"
  BY <1>3, <1>5 DEF Held, LockedLabel, BlockLabel, UnblockLabel
<1> QED BY <1>3, <1>4, <1>6, <1>7 DEF Reclaim, handler

\* The running thread's own moves.
LEMMA LockMoves ==
  ASSUME KernelTypeOK, CallOK, SwitchedOK, TerminatedOK, Services, NEW t \in Thread, t = Current
  PROVE  \/ Held(t)' = Held(t) /\ irq_disable_counter' = irq_disable_counter
         \/ Held(t)' = Held(t) + 1 /\ irq_disable_counter' = irq_disable_counter + 1 /\ masked'
         \/ Held(t)' = Held(t) - 1 /\ UnlockScheduler
<1> USE DEF Current, Held
<1>0. /\ t \in Thread /\ pc[t] \in Label /\ call[t] \in Call 
      /\ isr[t] \in {"none", "walk", "tail", "unlock"}
  BY DEF KernelTypeOK
<1>1. CASE TimerIRQ \/ HandlerStep
  BY <1>0, <1>1 DEF KernelTypeOK, TimerIRQ, HandlerStep, WalkWake, WalkNext,
     WalkEnd, HookTail, HookReturn, service, handler, locks, LockScheduler,
     InStuff, Handling
<1>2. CASE SleepCall \/ ExitCall \/ CleanCall
  BY <1>0, <1>2 DEF KernelTypeOK, CallOK, SleepCall, ExitCall, CleanCall,
     StuffEnter, LockStuff, LockScheduler, Enter, Goto, MayCall, At, service,
     handler, InStuff, StuffCall, LockedLabel, BlockLabel, UnblockLabel
<1>3. CASE BlockLock \/ UnblockLock
  BY <1>0, <1>3 DEF KernelTypeOK, CallOK, BlockLock, UnblockLock,
     LockScheduler, Goto, At, service, handler, InStuff, LockedLabel,
     BlockLabel, UnblockLabel
<1>4. CASE StartUp \/ SectionLeave \/ BlockUnlock \/ UnblockUnlock \/ UnlockIrq
  <2>1. UnlockScheduler /\ isr' = isr
    BY <1>4 DEF StartUp, SectionLeave, BlockUnlock, UnblockUnlock, UnlockIrq,
       handler
  <2>2. CASE StartUp \/ SectionLeave
    BY <1>0, <2>1, <2>2 DEF KernelTypeOK, CallOK, StartUp, SectionLeave,
       Return, Goto, At, service, handler, InStuff, StuffCall, LockedLabel,
       BlockLabel, UnblockLabel
  <2>3. CASE BlockUnlock
    BY <1>0, <2>1, <2>3 DEF KernelTypeOK, CallOK, BlockUnlock, Return, Goto,
       At, In, service, handler, InStuff, StuffCall, LockedLabel, BlockLabel,
       UnblockLabel
  <2>4. CASE UnblockUnlock
    BY <1>0, <2>1, <2>4 DEF KernelTypeOK, CallOK, UnblockUnlock, Return, Goto,
       At, In, service, handler, InStuff, StuffCall, LockedLabel, BlockLabel,
       UnblockLabel
  <2>5. CASE UnlockIrq
    BY <1>0, <2>1, <2>5 DEF KernelTypeOK, CallOK, UnlockIrq, Return, Goto, At,
       In, service, handler, InStuff, StuffCall, LockedLabel, BlockLabel,
       UnblockLabel
  <2> QED BY <1>4, <2>2, <2>3, <2>4, <2>5
<1>5. CASE Fork \/ SleepPast \/ SleepSet \/ ExitWakeClean \/ ReclaimDone \/ BlockState \/ BlockLink \/ BlockSchedule
           \/ UnblockMove \/ UnlockPostpone
  <2>1. irq_disable_counter' = irq_disable_counter /\ isr' = isr /\ call' = call
    BY <1>5 DEF Fork, SleepPast, SleepSet, ExitWakeClean, ReclaimDone,
       BlockState, BlockLink, BlockSchedule, UnblockMove, UnlockPostpone,
       service, handler, locks
  <2>2. CASE Fork \/ SleepPast \/ SleepSet \/ ExitWakeClean \/ ReclaimDone
    BY <1>0, <2>1, <2>2 DEF KernelTypeOK, CallOK, Fork, SleepPast, SleepSet,
       ExitWakeClean, ReclaimDone, Goto, At, In, InStuff, StuffCall,
       LockedLabel, BlockLabel, UnblockLabel
  <2>3. CASE BlockState \/ BlockLink \/ BlockSchedule \/ UnblockMove
    BY <1>0, <2>1, <2>3 DEF KernelTypeOK, CallOK, BlockState, BlockLink,
       BlockSchedule, UnblockMove, Goto, At, In, InStuff, StuffCall,
       LockedLabel, BlockLabel, UnblockLabel
  <2>4. CASE UnlockPostpone
    BY <1>0, <2>1, <2>4 DEF KernelTypeOK, CallOK, UnlockPostpone, Goto, At, In,
       InStuff, StuffCall, LockedLabel, BlockLabel, UnblockLabel
  <2> QED BY <1>5, <2>2, <2>3, <2>4
<1>6. CASE Reclaim
  <2> DEFINE dead == Head(lists["terminated"])
  <2>1. CASE dead = t
    BY <1>6, <2>1, ReclaimedThread
  <2>2. CASE dead # t
    BY <1>0, <1>6, <2>2 DEF KernelTypeOK, Reclaim, locks, handler, InStuff
  <2> QED BY <2>1, <2>2
<1> QED BY <1>1, <1>2, <1>3, <1>4, <1>5, <1>6 DEF Services, KernelStep

\* The steps of the scheduler keep its variables in their types, although a
\* thread may be switched away from while it holds the lock.
LEMMA KernelTypeStep ==
  ASSUME KernelTypeOK, SwitchedOK, TerminatedOK, Services
  PROVE  KernelTypeOK'
<1> USE DEF Current
<1>0. /\ Current \in Thread /\ lists \in [ListName -> Seq(Thread)] /\ state \in [Thread -> State]
      /\ pc \in [Thread -> Label] /\ call \in [Thread -> Call] /\ target \in [Thread -> Thread]
      /\ isr \in [Thread -> {"none", "walk", "tail", "unlock"}]
  BY DEF KernelTypeOK
<1>1. irq_disable_counter' \in Int /\ postpone_task_switches_counter' \in Int
  <2>1. CASE TimerIRQ \/ HandlerStep
    BY <2>1 DEF KernelTypeOK, TimerIRQ, HandlerStep, WalkWake, WalkNext,
       HookTail, HookReturn, LockScheduler, UnlockScheduler, locks, stuff
  <2>2. CASE SleepCall \/ ExitCall \/ CleanCall \/ Fork
    BY <2>2 DEF KernelTypeOK, SleepCall, ExitCall, CleanCall, Fork,
       StuffEnter, LockStuff, LockScheduler, stuff
  <2>3. CASE KernelStep /\ ~CleanCall
    BY <2>3 DEF KernelTypeOK, KernelStep, StartUp, SectionLeave, SleepPast,
       SleepSet, ExitWakeClean, Reclaim, ReclaimDone, BlockLock, BlockState,
       BlockLink, BlockSchedule, BlockUnlock, UnblockLock, UnblockMove,
       UnblockUnlock, UnlockPostpone, UnlockIrq, LockScheduler,
       UnlockScheduler, locks, stuff
  <2> QED BY <2>1, <2>2, <2>3 DEF Services
<1>5. masked' \in BOOLEAN
  <2>1. \/ masked' = masked \/ masked' = TRUE \/ masked' = (irq_disable_counter # 0)
        \/ masked' = (masked /\ irq_disable_counter # 1)
    <3>1. CASE TimerIRQ \/ HandlerStep
      BY <3>1 DEF TimerIRQ, HandlerStep, WalkWake, WalkNext, HookTail,
         HookReturn, LockScheduler, UnlockScheduler, locks
    <3>2. CASE SleepCall \/ ExitCall \/ CleanCall \/ Fork
      BY <3>2 DEF SleepCall, ExitCall, CleanCall, Fork, StuffEnter, LockStuff,
         LockScheduler
    <3>3. CASE KernelStep /\ ~CleanCall
      BY <3>3 DEF KernelStep, StartUp, SectionLeave, SleepPast, SleepSet,
         ExitWakeClean, Reclaim, ReclaimDone, BlockLock, BlockState,
         BlockLink, BlockSchedule, BlockUnlock, UnblockLock, UnblockMove,
         UnblockUnlock, UnlockPostpone, UnlockIrq, LockScheduler,
         UnlockScheduler, locks
    <3> QED BY <3>1, <3>2, <3>3 DEF Services
  <2> QED BY <2>1 DEF KernelTypeOK
<1>2. pc' \in [Thread -> Label] /\ call' \in [Thread -> Call] /\ target' \in [Thread -> Thread]
  <2>1. CASE Reclaim
    <3>1. Idle \in Thread
      BY DEF Thread
    <3>2. PICK dead : /\ pc' = [pc EXCEPT ![dead] = "start"] /\ call' = [call EXCEPT ![dead] = "none"]
                      /\ target' = [target EXCEPT ![dead] = Idle]
      BY <2>1 DEF Reclaim
    <3> QED BY <1>0, <3>1, <3>2 DEF Label, Call
  <2>2. CASE TimerIRQ \/ HandlerStep \/ Fork
    BY <1>0, <2>2 DEF TimerIRQ, HandlerStep, WalkWake, WalkNext, HookTail,
       HookReturn, Fork, service
  <2>3. CASE SleepCall \/ ExitCall \/ CleanCall
    <3>1. pc' = [pc EXCEPT ![Current] = "body"] /\ target' = target
          /\ \E c \in {"sleep", "exit", "clean"} : call' = [call EXCEPT ![Current] = c]
      BY <2>3 DEF SleepCall, ExitCall, CleanCall, StuffEnter, Enter, Goto
    <3> QED BY <1>0, <3>1 DEF Label, Call, StuffCall
  <2>4. CASE SectionLeave \/ BlockUnlock \/ UnblockUnlock \/ UnlockIrq
    <3>1. \E l \in Label : Return \/ (Goto(l) /\ UNCHANGED service)
      BY <2>4 DEF SectionLeave, BlockUnlock, UnblockUnlock, UnlockIrq, Label
    <3> QED BY <1>0, <3>1, ReturnType
  <2>5. CASE ExitWakeClean
    <3>1. Clean \in Thread
      BY DEF Thread
    <3> QED BY <1>0, <2>5, <3>1 DEF ExitWakeClean, Goto, Label
  <2>6. CASE StartUp \/ SleepPast \/ SleepSet \/ ReclaimDone \/ BlockLock \/ BlockState \/ BlockLink
             \/ BlockSchedule \/ UnblockLock \/ UnblockMove \/ UnlockPostpone
    BY <1>0, <2>6 DEF StartUp, SleepPast, SleepSet, ReclaimDone, BlockLock,
       BlockState, BlockLink, BlockSchedule, UnblockLock, UnblockMove,
       UnlockPostpone, Goto, service, Label
  <2> QED BY <2>1, <2>2, <2>3, <2>4, <2>5, <2>6 DEF Services, KernelStep
<1>3. isr' \in [Thread -> {"none", "walk", "tail", "unlock"}]
  <2>1. CASE TimerIRQ \/ HandlerStep
    BY <1>0, <2>1 DEF TimerIRQ, HandlerStep, WalkWake, WalkNext, WalkEnd,
       HookTail, HookReturn, handler
  <2>2. CASE SleepCall \/ ExitCall \/ Fork \/ KernelStep
    BY <1>0, <2>2 DEF SleepCall, ExitCall, CleanCall, Fork, StuffEnter,
       KernelStep, StartUp, SectionLeave, SleepPast, SleepSet, ExitWakeClean,
       Reclaim, ReclaimDone, BlockLock, BlockState, BlockLink, BlockSchedule,
       BlockUnlock, UnblockLock, UnblockMove, UnblockUnlock, UnlockPostpone,
       UnlockIrq, handler
  <2> QED BY <2>1, <2>2 DEF Services
<1>4. current_task_TCB' \in Thread /\ lists' \in [ListName -> Seq(Thread)] /\ state' \in [Thread -> State]
  <2>1. CASE UnblockMove \/ WalkWake
    <3>1. PICK t \in Thread : Unblock(t)
      <4>1. CASE UnblockMove
        BY <1>0, <4>1 DEF UnblockMove
      <4>2. CASE WalkWake
        <5>1. lists["sleeping"] \in Seq(Thread) /\ lists["sleeping"] # << >>
          BY <1>0, <4>2 DEF WalkWake, Handling, SwitchedOK, ListName
        <5> QED BY <4>2, <5>1 DEF WalkWake
      <4> QED BY <2>1, <4>1, <4>2
    <3> QED BY <1>0, <2>1, <3>1, UnblockType DEF UnblockMove, WalkWake
  <2>2. CASE BlockSchedule \/ UnlockPostpone \/ HookTail
    <3>1. Dispatch \/ UNCHANGED <<current_task_TCB, state, lists>>
      BY <2>2 DEF BlockSchedule, UnlockPostpone, HookTail, Schedule, runq
    <3> QED BY <1>0, <3>1, DispatchType
  <2>3. CASE WalkNext
    <3>1. "sleeping" \in ListName /\ lists["sleeping"] # << >>
      BY <2>3 DEF WalkNext, Handling, SwitchedOK, ListName
    <3> QED BY <1>0, <2>3, <3>1, RotateType DEF WalkNext
  <2>4. CASE Fork
    <3>1. PICK t \in Task : state' = [state EXCEPT ![t] = "READY"] /\ lists' = AddTail(lists, "ready", t)
      BY <2>4 DEF Fork
    <3>2. t \in Thread /\ "ready" \in ListName
      BY DEF Thread, ListName
    <3> QED BY <1>0, <2>4, <3>1, <3>2, AddTailType DEF Fork, State
  <2>5. CASE Reclaim
    <3>1. lists["terminated"] # << >> /\ "terminated" \in ListName
      BY <2>5 DEF Reclaim, ListName
    <3> QED BY <1>0, <2>5, <3>1, DropHeadType DEF Reclaim, State
  <2>6. CASE BlockState
    BY <1>0, <2>6 DEF BlockState, State, Reason
  <2>7. CASE BlockLink
    <3>1. ListOf(call[Current]) \in ListName
      BY DEF ListOf, ListName
    <3> QED BY <1>0, <2>7, <3>1, AddTailType DEF BlockLink
  <2>8. CASE TimerIRQ \/ HookReturn \/ SleepCall \/ ExitCall \/ CleanCall \/ StartUp \/ SectionLeave \/ SleepPast
             \/ SleepSet \/ ExitWakeClean \/ ReclaimDone \/ BlockLock \/ BlockUnlock \/ UnblockLock
             \/ UnblockUnlock \/ UnlockIrq
    BY <1>0, <2>8 DEF TimerIRQ, HookReturn, SleepCall, ExitCall, CleanCall,
       StuffEnter, StartUp, SectionLeave, SleepPast, SleepSet, ExitWakeClean,
       ReclaimDone, BlockLock, BlockUnlock, UnblockLock, UnblockUnlock,
       UnlockIrq, runq
  <2> QED BY <2>1, <2>2, <2>3, <2>4, <2>5, <2>6, <2>7, <2>8 DEF Services,
     KernelStep, HandlerStep
<1> QED BY <1>1, <1>2, <1>3, <1>4, <1>5 DEF KernelTypeOK

\* The service that a thread is in fits the place it is at.
LEMMA CallStep ==
  ASSUME KernelTypeOK, CallOK, SwitchedOK, TerminatedOK, Services
  PROVE  CallOK'
<1> USE DEF Current
<1>0. Current \in Thread /\ pc \in [Thread -> Label] /\ call \in [Thread -> Call]
  BY DEF KernelTypeOK
<1>1. CASE Reclaim
  <2>1. PICK dead \in Thread : pc' = [pc EXCEPT ![dead] = "start"] /\ call' = [call EXCEPT ![dead] = "none"]
    BY <1>1, ReclaimedThread
  <2> QED BY <1>0, <2>1 DEF CallOK, BlockLabel, UnblockLabel
<1>2. CASE TimerIRQ \/ HandlerStep \/ Fork
  BY <1>2 DEF TimerIRQ, HandlerStep, WalkWake, WalkNext, HookTail, HookReturn,
     Fork, service, CallOK
<1>3. CASE SleepCall \/ ExitCall \/ CleanCall
  BY <1>0, <1>3 DEF SleepCall, ExitCall, CleanCall, StuffEnter, Enter, Goto,
     MayCall, At, StuffCall, CallOK, BlockLabel, UnblockLabel
<1>4. CASE SectionLeave \/ BlockUnlock \/ UnblockUnlock \/ UnlockIrq
  BY <1>0, <1>4 DEF SectionLeave, BlockUnlock, UnblockUnlock, UnlockIrq,
     Return, Goto, At, In, service, StuffCall, CallOK, BlockLabel,
     UnblockLabel
<1>5. CASE StartUp \/ SleepPast \/ SleepSet \/ ExitWakeClean \/ ReclaimDone \/ BlockLock \/ BlockState \/ BlockLink
             \/ BlockSchedule \/ UnblockLock \/ UnblockMove \/ UnlockPostpone
  BY <1>0, <1>5 DEF StartUp, SleepPast, SleepSet, ExitWakeClean, ReclaimDone,
     BlockLock, BlockState, BlockLink, BlockSchedule, UnblockLock,
     UnblockMove, UnlockPostpone, Goto, At, In, service, StuffCall, CallOK,
     BlockLabel, UnblockLabel
<1> QED BY <1>1, <1>2, <1>3, <1>4, <1>5 DEF Services, KernelStep

\* The postpone counter follows the running thread into and out of lock_stuff.
LEMMA StuffMoves ==
  ASSUME KernelTypeOK, CallOK, SwitchedOK, TerminatedOK, Services, NEW t \in Thread, t = Current
  PROVE  postpone_task_switches_counter' = IF InStuff(t)' THEN 1 ELSE 0
<1> USE DEF Current
<1>0. /\ pc[t] \in Label /\ call[t] \in Call /\ pc \in [Thread -> Label] /\ call \in [Thread -> Call]
      /\ postpone_task_switches_counter = IF InStuff(t) THEN 1 ELSE 0
  BY DEF KernelTypeOK, SwitchedOK
<1>1. CASE TimerIRQ \/ HandlerStep \/ Fork
  BY <1>0, <1>1 DEF TimerIRQ, HandlerStep, WalkWake, WalkNext, HookTail,
     HookReturn, Fork, service, stuff, InStuff
<1>2. CASE SleepCall \/ ExitCall \/ CleanCall
  <2>1. pc[t] = "run" /\ call[t] = "none"
    BY <1>2 DEF SleepCall, ExitCall, CleanCall, MayCall, At, CallOK
  <2>2. pc'[t] = "body" /\ call'[t] \in StuffCall
        /\ postpone_task_switches_counter' = postpone_task_switches_counter + 1
    BY <1>0, <1>2 DEF SleepCall, ExitCall, CleanCall, StuffEnter, LockStuff,
       Enter, Goto, StuffCall
  <2> QED BY <1>0, <2>1, <2>2 DEF InStuff, StuffCall
<1>3. CASE UnlockPostpone
  <2>1. pc[t] = "stuff_post" /\ call[t] \in StuffCall /\ pc'[t] = "stuff_irq"
        /\ postpone_task_switches_counter' = postpone_task_switches_counter - 1
    BY <1>0, <1>3 DEF UnlockPostpone, Goto, At, CallOK
  <2> QED BY <1>0, <2>1 DEF InStuff
<1>4. CASE BlockSchedule
  BY <1>0, <1>4 DEF BlockSchedule, Goto, At, service, InStuff
<1>5. CASE Reclaim
  <2> DEFINE dead == Head(lists["terminated"])
  <2>1. pc'[t] = pc[t] /\ call'[t] = call[t]
    BY <1>0, <1>5, ReclaimedThread
  <2> QED BY <1>0, <1>5, <2>1 DEF Reclaim, stuff, InStuff
<1>6. CASE SectionLeave \/ BlockUnlock \/ UnblockUnlock \/ UnlockIrq
  <2>1. postpone_task_switches_counter' = postpone_task_switches_counter
    BY <1>6 DEF SectionLeave, BlockUnlock, UnblockUnlock, UnlockIrq, stuff
  <2>2. InStuff(t)' <=> InStuff(t)
    BY <1>0, <1>6 DEF SectionLeave, BlockUnlock, UnblockUnlock, UnlockIrq,
       Return, Goto, At, In, service, CallOK, InStuff, StuffCall, BlockLabel,
       UnblockLabel
  <2> QED BY <1>0, <2>1, <2>2
<1>7. CASE StartUp \/ SleepPast \/ SleepSet \/ ExitWakeClean \/ ReclaimDone \/ BlockLock \/ BlockState \/ BlockLink
           \/ UnblockLock \/ UnblockMove
  <2>1. postpone_task_switches_counter' = postpone_task_switches_counter /\ call' = call
    BY <1>7 DEF StartUp, SleepPast, SleepSet, ExitWakeClean, ReclaimDone,
       BlockLock, BlockState, BlockLink, UnblockLock, UnblockMove, stuff,
       service
  <2>2. InStuff(t)' <=> InStuff(t)
    BY <1>0, <1>7, <2>1 DEF StartUp, SleepPast, SleepSet, ExitWakeClean,
       ReclaimDone, BlockLock, BlockState, BlockLink, UnblockLock,
       UnblockMove, Goto, At, InStuff, CallOK, StuffCall
  <2> QED BY <1>0, <2>1, <2>2
<1> QED BY <1>1, <1>2, <1>3, <1>4, <1>5, <1>6, <1>7 DEF Services, KernelStep

\* A thread that is switched away from keeps one lock for the thread that is
\* switched to, and is in no section under lock_stuff.
LEMMA SwitchMoves ==
  ASSUME KernelTypeOK, CallOK, SwitchedOK, TerminatedOK, Services, NEW t \in Thread, t = Current,
         Current' # Current
  PROVE  /\ Held(t)' >= 1 /\ ~InStuff(t)' /\ isr'[t] \in {"none", "unlock"}
         /\ Dispatch /\ (Handling("tail") \/ UNCHANGED isr)
<1> USE DEF Current
<1>0. /\ pc \in [Thread -> Label] /\ call \in [Thread -> Call]
      /\ isr \in [Thread -> {"none", "walk", "tail", "unlock"}]
      /\ postpone_task_switches_counter = IF InStuff(t) THEN 1 ELSE 0
  BY DEF KernelTypeOK, SwitchedOK
<1>1. BlockSchedule \/ UnlockPostpone \/ HookTail
  BY DEF Services, KernelStep, StartUp, SectionLeave, SleepPast, SleepSet,
     ExitWakeClean, Reclaim, ReclaimDone, BlockLock, BlockState, BlockLink,
     BlockUnlock, UnblockLock, UnblockMove, UnblockUnlock, UnlockIrq,
     TimerIRQ, HandlerStep, WalkWake, WalkNext, HookReturn, SleepCall,
     ExitCall, CleanCall, Fork, StuffEnter, runq
<1>2. Dispatch
  BY <1>1 DEF BlockSchedule, UnlockPostpone, HookTail, Schedule, runq
<1>3. CASE BlockSchedule
  <2>1. postpone_task_switches_counter = 0 /\ pc'[t] = "blk_unlock" /\ call' = call /\ isr' = isr
        /\ pc[t] = "blk_sched" /\ isr[t] = "none"
    BY <1>0, <1>3 DEF BlockSchedule, Schedule, Goto, At, service, handler, runq
  <2>2. call[t] \notin StuffCall
    BY <1>0, <2>1 DEF InStuff
  <2> QED BY <1>0, <1>2, <2>1, <2>2 DEF Held, InStuff, LockedLabel, BlockLabel
<1>4. CASE UnlockPostpone
  <2>1. pc'[t] = "stuff_irq" /\ isr' = isr /\ isr[t] = "none"
    BY <1>0, <1>4 DEF UnlockPostpone, Goto, At, handler
  <2> QED BY <1>0, <1>2, <2>1 DEF Held, InStuff, LockedLabel
<1>5. CASE HookTail
  <2>1. postpone_task_switches_counter = 0 /\ pc' = pc /\ call' = call /\ isr'[t] = "unlock" /\ Handling("tail")
    BY <1>0, <1>5 DEF HookTail, Schedule, service, runq
  <2> QED BY <1>0, <1>2, <2>1 DEF Held, InStuff
<1> QED BY <1>1, <1>3, <1>4, <1>5

\* Every step of the scheduler keeps SwitchedOK.
LEMMA SwitchedStep ==
  ASSUME KernelTypeOK, CallOK, SwitchedOK, TerminatedOK, Services
  PROVE  SwitchedOK'
<1> DEFINE c == current_task_TCB
           d == current_task_TCB'
<1> USE DEF Current
<1>0. c \in Thread /\ d \in Thread /\ pc \in [Thread -> Label] /\ call \in [Thread -> Call]
  BY KernelTypeStep DEF KernelTypeOK
<1>1. \A t \in Thread \ {c} : Held(t)' >= 1 /\ ~InStuff(t)' /\ isr'[t] \in {"none", "unlock"}
  <2>1. CASE Reclaim
    <3>1. PICK dead \in Thread : /\ pc' = [pc EXCEPT ![dead] = "start"] /\ call' = [call EXCEPT ![dead] = "none"]
                                 /\ isr' = isr
      BY <2>1, ReclaimedThread
    <3>2. ASSUME NEW t \in Thread \ {c}, t = dead
          PROVE  Held(t)' >= 1 /\ ~InStuff(t)' /\ isr'[t] \in {"none", "unlock"}
      BY <1>0, <3>1, <3>2 DEF SwitchedOK, Held, InStuff, LockedLabel, StuffCall
    <3>3. ASSUME NEW t \in Thread \ {c}, t # dead
          PROVE  Held(t)' >= 1 /\ ~InStuff(t)' /\ isr'[t] \in {"none", "unlock"}
      <4>1. pc'[t] = pc[t] /\ call'[t] = call[t] /\ isr'[t] = isr[t]
        BY <1>0, <3>1, <3>3
      <4> QED BY <4>1 DEF SwitchedOK, Held, InStuff
    <3> QED BY <3>2, <3>3
  <2>2. CASE ~Reclaim
    BY <2>2, OthersStay DEF SwitchedOK, Held, InStuff
  <2> QED BY <2>1, <2>2
<1>2. CASE d = c
  <2>1. postpone_task_switches_counter' = IF InStuff(c)' THEN 1 ELSE 0
    <3>1. \A t \in Thread : t = c => postpone_task_switches_counter' = IF InStuff(t)' THEN 1 ELSE 0
      BY StuffMoves
    <3> QED BY <1>0, <1>2, <3>1
  <2>2. isr'[c] = "walk" => lists'["sleeping"] # << >>
    <3>1. CASE TimerIRQ \/ HandlerStep
      <4>1. CASE TimerIRQ
        BY <1>0, <4>1 DEF TimerIRQ, runq, KernelTypeOK
      <4>2. CASE WalkWake \/ HookTail \/ HookReturn
        BY <1>0, <4>2 DEF WalkWake, WalkEnd, HookTail, HookReturn, Handling,
           KernelTypeOK
      <4>3. CASE WalkNext
        <5>1. "sleeping" \in ListName /\ lists["sleeping"] # << >> /\ lists \in [ListName -> Seq(Thread)]
          BY <4>3 DEF WalkNext, Handling, SwitchedOK, ListName, KernelTypeOK
        <5>2. lists'["sleeping"] = Append(Tail(lists["sleeping"]), Head(lists["sleeping"]))
          BY <4>3, <5>1, RotateType DEF WalkNext
        <5>3. Tail(lists["sleeping"]) \in Seq(Thread) /\ Head(lists["sleeping"]) \in Thread
          BY <5>1
        <5>4. lists'["sleeping"] # << >>
          BY <5>2, <5>3, AppendNotEmpty
        <5> QED BY <5>4
      <4> QED BY <3>1, <4>1, <4>2, <4>3 DEF HandlerStep
    <3>2. CASE Services /\ ~TimerIRQ /\ ~HandlerStep
      <4>1. isr[c] = "none" /\ isr' = isr
        BY <3>2 DEF Services, SleepCall, ExitCall, CleanCall, Fork, MayCall,
           At, StuffEnter, KernelStep, StartUp, SectionLeave, SleepPast,
           SleepSet, ExitWakeClean, Reclaim, ReclaimDone, BlockLock,
           BlockState, BlockLink, BlockSchedule, BlockUnlock, UnblockLock,
           UnblockMove, UnblockUnlock, UnlockPostpone, UnlockIrq, handler
      <4> QED BY <4>1
    <3> QED BY <3>1, <3>2
  <2> QED BY <1>1, <1>2, <2>1, <2>2 DEF SwitchedOK
<1>3. CASE d # c
  <2>1. \A t \in Thread : t = c => Held(t)' >= 1 /\ ~InStuff(t)' /\ isr'[t] \in {"none", "unlock"}
    BY <1>3, SwitchMoves
  <2>2. \A t \in Thread : t = c => postpone_task_switches_counter' = IF InStuff(t)' THEN 1 ELSE 0
    BY StuffMoves
  <2>3. postpone_task_switches_counter' = 0
    BY <1>0, <2>1, <2>2
  <2>4. ~InStuff(Current)' /\ isr'[Current'] # "walk"
    <3>1. \A t \in Thread : t = Current' => ~InStuff(t)' /\ isr'[t] # "walk"
      BY <1>1, <1>3
    <3> QED BY <1>0, <3>1 DEF InStuff
  <2> QED BY <1>0, <1>1, <2>1, <2>3, <2>4 DEF SwitchedOK
<1> QED BY <1>2, <1>3

\* No thread comes into being or goes but by create_task and kernel_clean_work,
\* and the running thread is one that exists.
LEMMA BlankStep ==
  ASSUME KernelTypeOK, CallOK, BlankOK, SwitchedOK, TerminatedOK, Services
  PROVE  BlankOK'
<1> USE DEF Current
<1>0. /\ Current \in Thread /\ state \in [Thread -> State] /\ Current' \in Thread /\ Idle \in Thread
      /\ pc \in [Thread -> Label] /\ call \in [Thread -> Call] /\ lists \in [ListName -> Seq(Thread)]
  BY KernelTypeStep DEF KernelTypeOK, Thread
<1>1. CASE Reclaim
  <2>1. PICK dead \in Thread : /\ pc' = [pc EXCEPT ![dead] = "start"] /\ call' = [call EXCEPT ![dead] = "none"]
                               /\ isr' = isr /\ state' = [state EXCEPT ![dead] = "NONE"]
                               /\ dead # Current /\ Current' = Current /\ isr[dead] = "none"
    BY <1>1, ReclaimedThread
  <2> QED BY <1>0, <2>1 DEF BlankOK
<1>2. CASE ~Reclaim
  <2>1. \A t \in Thread : state'[t] = "NONE" => state[t] = "NONE"
    <3>1. CASE UnblockMove \/ WalkWake
      BY <1>0, <3>1 DEF UnblockMove, WalkWake, Unblock, Wake
    <3>2. CASE BlockSchedule \/ UnlockPostpone \/ HookTail
      <4>1. Dispatch \/ state' = state
        BY <3>2 DEF BlockSchedule, UnlockPostpone, HookTail, Schedule, runq
      <4> QED BY <1>0, <4>1 DEF Dispatch, runq
    <3>3. CASE Fork \/ BlockState
      BY <1>0, <3>3 DEF Fork, BlockState, Reason
    <3>4. CASE TimerIRQ \/ HookReturn \/ WalkNext \/ SleepCall \/ ExitCall \/ CleanCall \/ StartUp \/ SectionLeave \/ SleepPast
             \/ SleepSet \/ ExitWakeClean \/ ReclaimDone \/ BlockLock \/ BlockLink \/ BlockUnlock \/ UnblockLock
             \/ UnblockUnlock \/ UnlockIrq
      BY <3>4 DEF TimerIRQ, HookReturn, WalkNext, SleepCall, ExitCall,
         CleanCall, StuffEnter, StartUp, SectionLeave, SleepPast, SleepSet,
         ExitWakeClean, ReclaimDone, BlockLock, BlockLink, BlockUnlock,
         UnblockLock, UnblockUnlock, UnlockIrq, runq
    <3> QED BY <1>2, <3>1, <3>2, <3>3, <3>4 DEF Services, KernelStep,
       HandlerStep
  <2>2. state'[Current'] # "NONE"
    <3>1. CASE Current' = Current
      BY <1>0, <2>1, <3>1 DEF BlankOK
    <3>2. CASE Current' # Current
      <4>1. Dispatch
        BY <1>0, <3>2, SwitchMoves
      <4> QED BY <1>0, <3>2, <4>1 DEF Dispatch, SwitchTo, runq
    <3> QED BY <3>1, <3>2
  <2>3. \A t \in Thread \ {Current} : pc'[t] = pc[t] /\ call'[t] = call[t] /\ isr'[t] = isr[t]
    BY <1>2, OthersStay
  <2> QED BY <2>1, <2>2, <2>3 DEF BlankOK
<1> QED BY <1>1, <1>2

\* The threads on the terminated list are past their last switch, or on their
\* way to it with no interrupt on top.
LEMMA TerminatedStep ==
  ASSUME KernelTypeOK, CallOK, SwitchedOK, TerminatedOK, Services, TimerIRQ => call[Current] # "exit"
  PROVE  TerminatedOK'
<1> USE DEF Current
<1>0. /\ Current \in Thread /\ lists \in [ListName -> Seq(Thread)] /\ state \in [Thread -> State]
      /\ pc \in [Thread -> Label] /\ call \in [Thread -> Call] /\ "terminated" \in ListName
      /\ isr \in [Thread -> {"none", "walk", "tail", "unlock"}]
  BY DEF KernelTypeOK, ListName
<1> DEFINE old == lists["terminated"]
           new == lists'["terminated"]
<1>1. CASE Reclaim
  <2> DEFINE dead == Head(old)
  <2>1. old # << >> /\ new = Tail(old) /\ old \in Seq(Task)
    BY <1>0, <1>1, DropHeadType DEF Reclaim, TerminatedOK
  <2>2. dead \in Thread /\ pc' = [pc EXCEPT ![dead] = "start"] /\ call' = [call EXCEPT ![dead] = "none"] /\ isr' = isr
    BY <1>1, ReclaimedThread
  <2>3. new \in Seq(Task) /\ Len(new) = Len(old) - 1 /\ \A i \in 1..Len(new) : new[i] = old[i + 1]
    BY <2>1
  <2>4. Len(old) \in Nat /\ Len(old) > 0 /\ dead = old[1]
    BY <2>1
  <2>5. /\ \A i \in 1..Len(old) : /\ old[i] \in Thread
                                  /\ call[old[i]] = "exit" /\ isr[old[i]] = "none" /\ pc[old[i]] \in ExitLabel
        /\ \A i, j \in 1..Len(old) : old[i] = old[j] => i = j
    BY <2>1 DEF TerminatedOK, Thread
  <2> HIDE DEF old, new, dead
  <2>6. ASSUME NEW i \in 1..Len(new)
        PROVE  call'[new[i]] = "exit" /\ isr'[new[i]] = "none" /\ pc'[new[i]] \in ExitLabel
    <3>1. i + 1 \in 1..Len(old) /\ 1 \in 1..Len(old) /\ i + 1 # 1 /\ new[i] = old[i + 1]
      BY <2>3, <2>4
    <3>2. old[i + 1] # dead
      BY <3>1, <2>4, <2>5
    <3> QED BY <1>0, <2>2, <2>5, <3>1, <3>2
  <2>7. \A i, j \in 1..Len(new) : new[i] = new[j] => i = j
    BY <2>3, <2>4, <2>5
  <2> QED BY <2>3, <2>6, <2>7 DEF TerminatedOK, new
<1>2. CASE BlockLink
  <2> DEFINE c == Current
  <2>1. pc[c] = "blk_list" /\ isr[c] = "none" /\ pc' = [pc EXCEPT ![c] = "blk_sched"] /\ call' = call /\ isr' = isr
    BY <1>2 DEF BlockLink, At, Goto, service, handler
  <2>2. CASE call[c] = "exit"
    <3>1. new = Append(old, c)
      BY <1>0, <1>2, <2>2, AddTailType DEF BlockLink, ListOf
    <3>2. c \in Task
      BY <1>0, <2>2 DEF CallOK
    <3>3. /\ old \in Seq(Task) /\ \A i, j \in 1..Len(old) : old[i] = old[j] => i = j
          /\ \A i \in 1..Len(old) : /\ old[i] \in Thread
                                    /\ call[old[i]] = "exit" /\ isr[old[i]] = "none" /\ pc[old[i]] \in ExitLabel
      BY DEF TerminatedOK, Thread
    <3> HIDE DEF old, new, c
    <3>4. /\ new \in Seq(Task) /\ Len(new) = Len(old) + 1 /\ Len(old) \in Nat /\ new[Len(old) + 1] = c
          /\ \A i \in 1..Len(old) : new[i] = old[i]
      BY <3>1, <3>2, <3>3
    <3>5. \A i \in 1..Len(old) : old[i] # c
      BY <2>1, <3>3 DEF ExitLabel
    <3>6. c \in Thread
      BY <3>2 DEF Thread
    <3>7. \A i \in 1..Len(new) : call'[new[i]] = "exit" /\ isr'[new[i]] = "none" /\ pc'[new[i]] \in ExitLabel
      <4>1. call'[c] = "exit" /\ isr'[c] = "none" /\ pc'[c] \in ExitLabel
        BY <1>0, <2>1, <2>2, <3>6 DEF ExitLabel
      <4>2. \A i \in 1..Len(old) : call'[old[i]] = "exit" /\ isr'[old[i]] = "none" /\ pc'[old[i]] \in ExitLabel
        BY <1>0, <2>1, <3>3, <3>5
      <4> QED BY <3>4, <4>1, <4>2
    <3>8. \A i, j \in 1..Len(new) : new[i] = new[j] => i = j
      BY <3>3, <3>4, <3>5
    <3> QED BY <3>4, <3>7, <3>8 DEF TerminatedOK, new
  <2>3. CASE call[c] # "exit"
    <3>1. ListOf(call[c]) \in ListName /\ ListOf(call[c]) # "terminated"
      BY <2>3 DEF ListOf, ListName
    <3>2. new = old
      BY <1>0, <1>2, <3>1, AddTailType DEF BlockLink
    <3> QED BY <1>0, <2>1, <2>3, <3>2, TerminatedFrame
  <2> QED BY <2>2, <2>3
<1>3. CASE ~Reclaim /\ ~BlockLink
  <2>1. new = old
    <3>1. CASE UnblockMove
      BY <1>0, <3>1, UnblockType DEF UnblockMove, KernelTypeOK
    <3>2. CASE WalkWake \/ WalkNext
      <4>1. lists["sleeping"] \in Seq(Thread) /\ lists["sleeping"] # << >> /\ "sleeping" \in ListName
        BY <1>0, <3>2 DEF WalkWake, WalkNext, Handling, SwitchedOK, ListName
      <4>2. CASE WalkWake
        BY <1>0, <4>1, <4>2, UnblockType DEF WalkWake
      <4>3. CASE WalkNext
        BY <1>0, <4>1, <4>3, RotateType DEF WalkNext
      <4> QED BY <3>2, <4>2, <4>3
    <3>3. CASE BlockSchedule \/ UnlockPostpone \/ HookTail
      <4>1. Dispatch \/ lists' = lists
        BY <3>3 DEF BlockSchedule, UnlockPostpone, HookTail, Schedule, runq
      <4> QED BY <1>0, <4>1, DispatchType
    <3>4. CASE Fork
      <4>1. \A t \in Task : t \in Thread
        BY DEF Thread
      <4>2. "ready" \in ListName
        BY DEF ListName
      <4> QED BY <1>0, <3>4, <4>1, <4>2, AddTailType DEF Fork
    <3>5. CASE TimerIRQ \/ HookReturn \/ SleepCall \/ ExitCall \/ CleanCall \/ StartUp \/ SectionLeave \/ SleepPast
             \/ SleepSet \/ ExitWakeClean \/ ReclaimDone \/ BlockLock \/ BlockState \/ BlockUnlock \/ UnblockLock
             \/ UnblockUnlock \/ UnlockIrq
      BY <3>5 DEF TimerIRQ, HookReturn, SleepCall, ExitCall, CleanCall,
         StuffEnter, StartUp, SectionLeave, SleepPast, SleepSet,
         ExitWakeClean, ReclaimDone, BlockLock, BlockState, BlockUnlock,
         UnblockLock, UnblockUnlock, UnlockIrq, runq
    <3> QED BY <1>3, <3>1, <3>2, <3>3, <3>4, <3>5 DEF Services, KernelStep,
       HandlerStep
  <2>2. ASSUME call[Current] = "exit", isr[Current] = "none", pc[Current] \in ExitLabel
        PROVE  call'[Current] = "exit" /\ isr'[Current] = "none" /\ pc'[Current] \in ExitLabel
    <3>1. BlockSchedule \/ BlockUnlock \/ UnlockPostpone \/ UnlockIrq
      BY <1>3, <2>2 DEF ExitLabel, Services, KernelStep, StartUp,
         SectionLeave, SleepPast, SleepSet, ExitWakeClean, ReclaimDone,
         BlockLock, BlockState, UnblockLock, UnblockMove, UnblockUnlock,
         TimerIRQ, HandlerStep, WalkWake, WalkNext, HookTail, HookReturn,
         Handling, SleepCall, ExitCall, CleanCall, Fork, MayCall, At
    <3> QED BY <1>0, <2>2, <3>1 DEF BlockSchedule, BlockUnlock,
       UnlockPostpone, UnlockIrq, Goto, In, service, handler, ExitLabel
  <2>3. \A t \in Thread \ {Current} : pc'[t] = pc[t] /\ call'[t] = call[t] /\ isr'[t] = isr[t]
    BY <1>3, OthersStay
  <2> QED BY <2>1, <2>2, <2>3, TerminatedFrame DEF Thread
<1> QED BY <1>1, <1>2, <1>3

\* Kernel code under way never starts or leaves sys_exit, and no handler runs
\* on top of it.
LEMMA KernelCalls ==
  ASSUME KernelTypeOK, CallOK, SwitchedOK, TerminatedOK, KernelStep, NEW t \in Thread, t = Current
  PROVE  isr[t] = "none" /\ isr' = isr /\ (call'[t] = "exit" <=> call[t] = "exit")
<1> USE DEF Current
<1>0. pc \in [Thread -> Label] /\ call \in [Thread -> Call]
  BY DEF KernelTypeOK
<1>1. isr[t] = "none" /\ isr' = isr
  BY DEF KernelStep, CleanCall, StuffEnter, StartUp, SectionLeave, SleepPast,
     SleepSet, ExitWakeClean, Reclaim, ReclaimDone, BlockLock, BlockState,
     BlockLink, BlockSchedule, BlockUnlock, UnblockLock, UnblockMove,
     UnblockUnlock, UnlockPostpone, UnlockIrq, At, handler
<1>2. CASE CleanCall
  BY <1>0, <1>1, <1>2 DEF CleanCall, StuffEnter, Enter, At, CallOK
<1>3. CASE Reclaim
  BY <1>0, <1>1, <1>3, ReclaimedThread
<1>4. CASE SectionLeave \/ BlockUnlock \/ UnblockUnlock \/ UnlockIrq
  BY <1>0, <1>1, <1>4 DEF SectionLeave, BlockUnlock, UnblockUnlock, UnlockIrq,
     Return, At, In, service, CallOK
<1>5. CASE StartUp \/ SleepPast \/ SleepSet \/ ExitWakeClean \/ ReclaimDone \/ BlockLock \/ BlockState \/ BlockLink
             \/ BlockSchedule \/ UnblockLock \/ UnblockMove \/ UnlockPostpone
  BY <1>1, <1>5 DEF StartUp, SleepPast, SleepSet, ExitWakeClean, ReclaimDone,
     BlockLock, BlockState, BlockLink, BlockSchedule, UnblockLock,
     UnblockMove, UnlockPostpone, service
<1> QED BY <1>1, <1>2, <1>3, <1>4, <1>5 DEF KernelStep

\* The interrupt flag after a step that leaves it at f unless it switches
\* threads, f being what the place of the thread that took the step calls for.
LEMMA FlagMoves ==
  ASSUME CpuInv, Services, NEW f \in BOOLEAN, Flag(f), 
         f <=> isr'[Current] = "none" /\ call'[Current] # "exit"
  PROVE  /\ interrupts' \in BOOLEAN /\ saved' \in [Thread -> BOOLEAN]
         /\ interrupts' <=> isr'[Current'] = "none" /\ call'[Current'] # "exit"
         /\ \A t \in Thread \ {Current'} :
              New(t)' \/ (saved'[t] <=> isr'[t] = "none" /\ call'[t] # "exit")
<1> DEFINE c == current_task_TCB
           d == current_task_TCB'
<1> USE DEF Current
<1>0. /\ c \in Thread /\ d \in Thread /\ pc \in [Thread -> Label] /\ call \in [Thread -> Call]
      /\ saved \in [Thread -> BOOLEAN] /\ interrupts \in BOOLEAN
  BY KernelTypeStep DEF KernelTypeOK, CpuInv, CpuTypeOK
<1>a. KernelTypeOK /\ CallOK /\ SwitchedOK /\ TerminatedOK
  BY DEF CpuInv
<1>1. \A t \in Thread \ {c} : New(t) \/ (saved[t] <=> isr[t] = "none" /\ call[t] # "exit")
  BY DEF CpuInv, FlagOK
<1>b. interrupts <=> isr[c] = "none" /\ call[c] # "exit"
  BY DEF CpuInv, FlagOK
<1>2. CASE d = c
  <2>1. interrupts' = f /\ saved' = saved
    BY <1>2 DEF Flag
  <2>2. CASE Reclaim
    <3>1. PICK dead \in Thread : pc' = [pc EXCEPT ![dead] = "start"] /\ call' = [call EXCEPT ![dead] = "none"]
                                 /\ isr' = isr /\ isr[dead] = "none"
      BY <1>a, <2>2, ReclaimedThread
    <3>2. \A t \in Thread \ {c} : New(t)' \/ (saved'[t] <=> isr'[t] = "none" /\ call'[t] # "exit")
      BY <1>0, <1>1, <2>1, <3>1 DEF New
    <3> QED BY <1>0, <1>2, <2>1, <3>2
  <2>3. CASE ~Reclaim
    <3>1. \A t \in Thread \ {c} : pc'[t] = pc[t] /\ call'[t] = call[t] /\ isr'[t] = isr[t]
      BY <1>a, <2>3, OthersStay
    <3> QED BY <1>0, <1>1, <1>2, <2>1, <3>1 DEF New
  <2> QED BY <2>2, <2>3
<1>3. CASE d # c
  <2>1. saved' = [saved EXCEPT ![c] = interrupts] /\ interrupts' = (New(d) \/ saved[d])
    BY <1>3 DEF Flag, Switched
  <2>2. Dispatch /\ (Handling("tail") \/ UNCHANGED isr) /\ isr'[c] \in {"none", "unlock"}
    BY <1>0, <1>a, <1>3, SwitchMoves
  <2>3. BlockSchedule \/ UnlockPostpone \/ HookTail
    BY <1>3 DEF Services, KernelStep, StartUp, SectionLeave, SleepPast,
       SleepSet, ExitWakeClean, Reclaim, ReclaimDone, BlockLock, BlockState,
       BlockLink, BlockUnlock, UnblockLock, UnblockMove, UnblockUnlock,
       UnlockIrq, TimerIRQ, HandlerStep, WalkWake, WalkNext, HookReturn,
       SleepCall, ExitCall, CleanCall, Fork, StuffEnter, runq
  <2>4. call' = call /\ (isr'[c] = "none" <=> isr[c] = "none")
    BY <1>0, <1>a, <2>3 DEF BlockSchedule, UnlockPostpone, HookTail, service,
       handler, KernelTypeOK, Handling
  <2>5. ~Reclaim
    BY <1>3 DEF Reclaim
  <2>6. \A t \in Thread \ {c} : pc'[t] = pc[t] /\ call'[t] = call[t] /\ isr'[t] = isr[t]
    BY <1>a, <2>5, OthersStay
  <2>7. New(d) => call[d] # "exit" /\ isr[d] = "none"
    BY <1>0, <1>a DEF New, CallOK
  <2>8. interrupts' <=> isr[d] = "none" /\ call[d] # "exit"
    BY <1>0, <1>1, <1>3, <2>1, <2>7
  <2>9. \A t \in Thread \ {c} : New(t)' <=> New(t)
    BY <2>6 DEF New
  <2>10. interrupts' <=> isr'[d] = "none" /\ call'[d] # "exit"
    BY <1>0, <1>3, <2>6, <2>8
  <2>11. ASSUME NEW t \in Thread \ {d}
         PROVE  New(t)' \/ (saved'[t] <=> isr'[t] = "none" /\ call'[t] # "exit")
    <3>1. CASE t = c
      <4>1. saved'[c] = interrupts
        BY <1>0, <2>1
      <4> QED BY <4>1, <3>1, <1>b, <2>4
    <3>2. CASE t # c
      <4>1. saved'[t] = saved[t]
        BY <1>0, <2>1, <3>2
      <4> QED BY <4>1, <3>2, <1>1, <2>6, <2>9
    <3> QED BY <3>1, <3>2
  <2>12. interrupts' \in BOOLEAN /\ saved' \in [Thread -> BOOLEAN]
    BY <1>0, <2>1 DEF New
  <2> QED BY <2>10, <2>11, <2>12
<1> QED BY <1>2, <1>3

\* The steps that are not the scheduler's.
Quiet ==
  \/ UKeyIRQ \/ GetToRing3 \/ SysGetChar \/ SysPutChar \/ PrintBegin \/ PrintEnd
  \/ UNCHANGED uvars

\* They leave every thread where it is, and the locks and the CPU alone.
LEMMA QuietFrame ==
  ASSUME Quiet
  PROVE  /\ UNCHANGED <<runq, irq_disable_counter, stuff, left, pc, service, handler, cpu>>
         /\ mode' = mode \/ (pc[Current] = "run" /\ mode' = [mode EXCEPT ![Current] = "user"])
<1>1. CASE UKeyIRQ
  BY <1>1 DEF UKeyIRQ, KeyStored, KeyDropped
<1>2. CASE SysGetChar
  BY <1>2 DEF SysGetChar, GetChar, GetNothing
<1>3. CASE GetToRing3 \/ SysPutChar \/ PrintBegin \/ PrintEnd \/ UNCHANGED uvars
  BY <1>3 DEF GetToRing3, SysPutChar, PrintBegin, PrintEnd, uvars, kbdVars,
     vars, locks, At
<1> QED BY <1>1, <1>2, <1>3 DEF Quiet

\* Every step is a step of the scheduler or one of these.
LEMMA UserSteps ==
  ASSUME [UNext]_uvars
  PROVE  Services \/ Quiet
BY DEF UNext, Services, Quiet, UKernelStep, USleep, UTimerIRQ, UHandlerStep,
   SysExit, SysFork

\* The flag is off exactly where it is meant to be, whoever was switched to.
LEMMA FlagStep ==
  ASSUME UserModeAssumption, CpuInv, [UNext]_uvars
  PROVE  CpuTypeOK' /\ FlagOK'
<1> DEFINE c == current_task_TCB
<1> USE DEF Current
<1>0. /\ c \in Thread /\ pc \in [Thread -> Label] /\ call \in [Thread -> Call]
      /\ isr \in [Thread -> {"none", "walk", "tail", "unlock"}]
      /\ saved \in [Thread -> BOOLEAN] /\ interrupts \in BOOLEAN /\ mode \in [Thread -> Mode]
      /\ state \in [Thread -> State] /\ Idle \in Thread
  BY DEF KernelTypeOK, CpuInv, CpuTypeOK, Thread
<1>a. KernelTypeOK /\ CallOK /\ SwitchedOK /\ TerminatedOK /\ BlankOK
  BY DEF CpuInv
<1>b. /\ interrupts <=> isr[c] = "none" /\ call[c] # "exit"
      /\ \A t \in Thread : call[t] = "exit" => mode[t] = "user" /\ isr[t] = "none"
  BY DEF CpuInv, FlagOK
<1>n. pc[c] = "run" => call[c] = "none"
  BY <1>0, <1>a DEF CallOK
<1>1. CASE Quiet
  BY <1>0, <1>a, <1>b, <1>n, <1>1, QuietFrame DEF CpuInv, CpuTypeOK, FlagOK,
     New, cpu, runq, service, handler, Mode
<1>2. CASE UKernelStep
  <2>1. KernelStep /\ Services /\ Flag(interrupts \/ Sti)
    BY <1>2 DEF UKernelStep, Services
  <2>2. isr[c] = "none" /\ isr' = isr /\ (call'[c] = "exit" <=> call[c] = "exit")
    BY <1>0, <1>a, <2>1, KernelCalls
  <2>3. Sti => call[c] # "exit"
    BY <1>0, <1>a DEF Sti, At, In, CallOK
  <2>4. (interrupts \/ Sti) \in BOOLEAN
    OBVIOUS
  <2>5. (interrupts \/ Sti) <=> isr'[Current] = "none" /\ call'[Current] # "exit"
    BY <1>b, <2>2, <2>3
  <2>6. \A t \in Thread : call'[t] = "exit" => call[t] = "exit" /\ isr'[t] = isr[t]
    <3>1. CASE Reclaim
      BY <1>0, <1>a, <3>1, ReclaimedThread
    <3>2. CASE ~Reclaim
      BY <1>a, <2>1, <2>2, <3>2, OthersStay
    <3> QED BY <3>1, <3>2
  <2>7. mode' \in [Thread -> Mode] /\ \A t \in Thread : call[t] = "exit" => mode'[t] = mode[t]
    <3>1. mode' = [ULoaderSlept EXCEPT ![Idle] = "idle"]
      BY <1>2 DEF UKernelStep
    <3>2. \A t \in Thread : call[t] = "exit" => t # Idle
      BY <1>a, SchedulerAssumption DEF CallOK
    <3>3. ULoaderSlept \in [Thread -> Mode] /\ \A t \in Thread : call[t] = "exit" => ULoaderSlept[t] = mode[t]
      BY <1>0 DEF ULoaderSlept, In, Mode
    <3> QED BY <1>0, <3>1, <3>2, <3>3 DEF Mode
  <2> QED BY <1>b, <2>1, <2>4, <2>5, <2>6, <2>7, FlagMoves DEF CpuTypeOK,
     FlagOK
<1>3. CASE USleep \/ SysExit
  <2>1. Services /\ ~Reclaim
    BY <1>3 DEF USleep, SysExit, Services, SleepCall, ExitCall, Reclaim,
       MayCall, At
  <2>2. isr[c] = "none" /\ isr' = isr /\ pc[c] = "run" /\ mode' = mode
    BY <1>3 DEF USleep, SysExit, SleepCall, ExitCall, MayCall, At, StuffEnter,
       handler, Keep
  <2>3. \/ call'[c] = "sleep" /\ Flag(interrupts)
        \/ call'[c] = "exit" /\ mode[c] = "user" /\ Flag(FALSE)
    BY <1>0, <1>3 DEF USleep, SysExit, SleepCall, ExitCall, StuffEnter, Enter,
       InUser
  <2>4. PICK f \in BOOLEAN : Flag(f) /\ (f <=> isr'[Current] = "none" /\ call'[Current] # "exit")
    BY <1>0, <1>b, <1>n, <2>2, <2>3
  <2>5. \A t \in Thread \ {c} : call'[t] = call[t]
    BY <1>a, <2>1, OthersStay
  <2>6. \A t \in Thread : call'[t] = "exit" => mode'[t] = "user" /\ isr'[t] = "none"
    BY <1>b, <2>2, <2>3, <2>5
  <2> QED BY <1>0, <2>1, <2>2, <2>4, <2>6, FlagMoves DEF CpuTypeOK, FlagOK
<1>4. CASE UTimerIRQ
  <2>1. Services /\ ~Reclaim /\ call' = call /\ isr[c] = "none" /\ isr'[c] # "none" /\ mode' = mode
        /\ Flag(FALSE) /\ interrupts
    BY <1>0, <1>4 DEF UTimerIRQ, Services, TimerIRQ, Reclaim, At, handler,
       runq, service, Keep
  <2>5. \A t \in Thread \ {c} : isr'[t] = isr[t]
    BY <1>a, <2>1, OthersStay
  <2> QED BY <1>0, <1>b, <2>1, <2>5, FlagMoves DEF CpuTypeOK, FlagOK
<1>5. CASE UHandlerStep
  <2>1. Services /\ ~Reclaim /\ call' = call /\ isr[c] # "none" /\ mode' = mode
        /\ Flag(Handling("unlock"))
    BY <1>0, <1>5 DEF UHandlerStep, Services, HandlerStep, WalkWake, WalkNext,
       HookTail, HookReturn, Handling, Reclaim, At, service, Keep
  <2>2. Handling("unlock") <=> isr'[c] = "none"
    BY <1>0, <1>5 DEF UHandlerStep, HandlerStep, WalkWake, WalkNext, WalkEnd,
       HookTail, HookReturn, Handling, handler
  <2>5. \A t \in Thread \ {c} : isr'[t] = isr[t]
    BY <1>a, <2>1, OthersStay
  <2>6. Handling("unlock") \in BOOLEAN
    BY DEF Handling
  <2>7. Handling("unlock") <=> isr'[Current] = "none" /\ call'[Current] # "exit"
    BY <1>0, <1>b, <2>1, <2>2
  <2>8. \A t \in Thread : call'[t] = "exit" => mode'[t] = "user" /\ isr'[t] = "none"
    BY <1>b, <2>1, <2>5
  <2> QED BY <1>0, <2>1, <2>6, <2>7, <2>8, FlagMoves DEF CpuTypeOK, FlagOK
<1>6. CASE SysFork
  <2>1. /\ pc' = pc /\ call' = call /\ isr' = isr /\ current_task_TCB' = c /\ saved' = saved /\ interrupts' = interrupts
        /\ state' \in [Thread -> State] /\ \A t \in Thread : state'[t] # state[t] => state[t] = "NONE"
    <3>1. PICK t \in Task : state[t] = "NONE" /\ state' = [state EXCEPT ![t] = "READY"]
      BY <1>6 DEF SysFork, Fork
    <3> QED BY <1>0, <1>6, <3>1 DEF SysFork, Fork, Keep, cpu, service,
       handler, State
  <2>2. mode' = [t \in Thread |-> IF state'[t] # state[t] THEN "idle" ELSE mode[t]]
    BY <1>6 DEF SysFork
  <2>3. mode' \in [Thread -> Mode] /\ \A t \in Thread : call[t] = "exit" => mode'[t] = mode[t]
    BY <1>0, <1>a, <2>1, <2>2 DEF BlankOK, Mode
  <2> QED BY <1>0, <2>1, <2>3 DEF CpuInv, CpuTypeOK, FlagOK, New
<1> QED BY <1>1, <1>2, <1>3, <1>4, <1>5, <1>6 DEF UNext, Quiet

\* The lock depth of a thread is between none and three.
LEMMA HeldRange ==
  ASSUME NEW t
  PROVE  Held(t) \in 0..3 /\ Held(t)' \in 0..3
BY DEF Held

\* Only the running thread takes or gives back locks.
LEMMA OthersHold ==
  ASSUME KernelTypeOK, SwitchedOK, TerminatedOK, Services, NEW t \in Thread, t # Current
  PROVE  Held(t)' = Held(t)
<1> USE DEF Current
<1>0. pc \in [Thread -> Label] /\ call \in [Thread -> Call]
  BY DEF KernelTypeOK
<1>1. CASE Reclaim
  <2>1. PICK dead \in Thread : /\ pc[dead] = "stuff_irq" /\ call[dead] = "exit" /\ isr' = isr
                               /\ pc' = [pc EXCEPT ![dead] = "start"] /\ call' = [call EXCEPT ![dead] = "none"]
    BY <1>1, ReclaimedThread
  <2>2. CASE t = dead
    BY <1>0, <2>1, <2>2 DEF Held, InStuff, LockedLabel, StuffCall
  <2>3. CASE t # dead
    <3>1. pc'[t] = pc[t] /\ call'[t] = call[t]
      BY <1>0, <2>1, <2>3
    <3> QED BY <2>1, <3>1 DEF Held, InStuff
  <2> QED BY <2>2, <2>3
<1>2. CASE ~Reclaim
  <2>1. pc'[t] = pc[t] /\ call'[t] = call[t] /\ isr'[t] = isr[t]
    BY <1>2, OthersStay
  <2> QED BY <2>1 DEF Held, InStuff
<1> QED BY <1>1, <1>2

\* The number of locks taken is finite.
LEMMA LocksFinite ==
  ASSUME UserModeAssumption
  PROVE  /\ IsFiniteSet(Thread) /\ Cardinality(Thread) \in Nat
         /\ IsFiniteSet(LocksTaken) /\ Cardinality(LocksTaken) \in Nat
<1>1. IsFiniteSet(Thread)
  <2>1. IsFiniteSet(Task)
    BY DEF UserModeAssumption
  <2>2. IsFiniteSet(Task \cup {Idle})
    BY <2>1, FS_AddElement
  <2>3. IsFiniteSet((Task \cup {Idle}) \cup {Clean})
    BY <2>2, FS_AddElement
  <2>4. Thread = (Task \cup {Idle}) \cup {Clean}
    BY DEF Thread
  <2> QED BY <2>3, <2>4
<1>2. IsFiniteSet(1..3)
  <2>1. 1 \in Int /\ 3 \in Int
    OBVIOUS
  <2>2. \A a, b \in Int : IsFiniteSet(a..b)
    BY FS_Interval
  <2> QED BY <2>1, <2>2
<1>3. IsFiniteSet(Thread \X (1..3))
  BY <1>1, <1>2, FS_Product
<1>4. LocksTaken \subseteq Thread \X (1..3)
  BY DEF LocksTaken
<1>5. IsFiniteSet(LocksTaken)
  BY <1>3, <1>4, FS_Subset
<1> QED BY <1>1, <1>5, FS_CardinalityType

\* Every thread that does not run has one lock to give back for the thread
\* that it was switched from.
LEMMA LocksEnough ==
  ASSUME UserModeAssumption, KernelTypeOK, SwitchedOK
  PROVE  Cardinality(LocksTaken) >= Cardinality(Thread) - 1
<1> DEFINE owed == (Thread \ {Current}) \X {1}
<1>1. Current \in Thread
  BY DEF KernelTypeOK, Current
<1>2. IsFiniteSet(Thread \ {Current}) /\ Cardinality(Thread \ {Current}) = Cardinality(Thread) - 1
  BY <1>1, LocksFinite, FS_RemoveElement
<1>3. IsFiniteSet({1}) /\ Cardinality({1}) = 1
  BY FS_Singleton
<1>4. Cardinality(owed) = (Cardinality(Thread) - 1) * 1
  BY <1>2, <1>3, FS_Product
<1>5. owed \subseteq LocksTaken
  <2>1. ASSUME NEW lock \in owed PROVE lock \in LocksTaken
    <3>1. lock[1] \in Thread \ {Current} /\ lock[2] = 1 /\ lock \in Thread \X (1..3)
      OBVIOUS
    <3>2. Held(lock[1]) >= 1
      BY <3>1 DEF SwitchedOK
    <3> QED BY <3>1, <3>2 DEF LocksTaken
  <2> QED BY <2>1
<1>6. Cardinality(owed) <= Cardinality(LocksTaken)
  BY <1>5, LocksFinite, FS_Subset
<1> QED BY <1>4, <1>6, LocksFinite

\* A lock more of one thread is one element more in the set of locks taken.
LEMMA LockCounted ==
  ASSUME UserModeAssumption, NEW t \in Thread, Held(t)' = Held(t) + 1,
         \A u \in Thread : u # t => Held(u)' = Held(u)
  PROVE  Cardinality(LocksTaken') = Cardinality(LocksTaken) + 1
<1> DEFINE lock == <<t, Held(t) + 1>>
<1>1. Held(t) \in 0..2
  BY HeldRange
<1>2. LocksTaken' = LocksTaken \cup {lock}
  <2>1. ASSUME NEW x \in Thread \X (1..3)
        PROVE  x \in LocksTaken' <=> x \in LocksTaken \cup {lock}
    <3> DEFINE u == x[1]
               i == x[2]
    <3>0. u \in Thread /\ i \in 1..3 /\ x = <<u, i>>
      OBVIOUS
    <3>1. Held(u) \in 0..3 /\ Held(u)' \in 0..3
      BY HeldRange
    <3>2. x \in LocksTaken' <=> i <= Held(u)'
      BY DEF LocksTaken
    <3>3. x \in LocksTaken <=> i <= Held(u)
      BY DEF LocksTaken
    <3>4. CASE u = t
      BY <1>1, <3>0, <3>1, <3>2, <3>3, <3>4
    <3>5. CASE u # t
      BY <3>0, <3>2, <3>3, <3>5
    <3> QED BY <3>4, <3>5
  <2>2. lock \in Thread \X (1..3)
    BY <1>1
  <2>3. LocksTaken' \subseteq Thread \X (1..3) /\ LocksTaken \subseteq Thread \X (1..3)
    BY DEF LocksTaken
  <2> QED BY <2>1, <2>2, <2>3
<1>3. lock \notin LocksTaken
  BY <1>1 DEF LocksTaken
<1> QED BY <1>2, <1>3, LocksFinite, FS_AddElement

\* A lock less of one thread is one element less.
LEMMA UnlockCounted ==
  ASSUME UserModeAssumption, NEW t \in Thread, Held(t)' = Held(t) - 1,
         \A u \in Thread : u # t => Held(u)' = Held(u)
  PROVE  Cardinality(LocksTaken') = Cardinality(LocksTaken) - 1
<1> DEFINE lock == <<t, Held(t)>>
<1>1. Held(t) \in 1..3
  BY HeldRange
<1>2. LocksTaken' = LocksTaken \ {lock}
  <2>1. ASSUME NEW x \in Thread \X (1..3)
        PROVE  x \in LocksTaken' <=> x \in LocksTaken \ {lock}
    <3> DEFINE u == x[1]
               i == x[2]
    <3>0. u \in Thread /\ i \in 1..3 /\ x = <<u, i>>
      OBVIOUS
    <3>1. Held(u) \in 0..3 /\ Held(u)' \in 0..3
      BY HeldRange
    <3>2. x \in LocksTaken' <=> i <= Held(u)'
      BY DEF LocksTaken
    <3>3. x \in LocksTaken <=> i <= Held(u)
      BY DEF LocksTaken
    <3>4. CASE u = t
      BY <1>1, <3>0, <3>1, <3>2, <3>3, <3>4
    <3>5. CASE u # t
      BY <3>0, <3>2, <3>3, <3>5
    <3> QED BY <3>4, <3>5
  <2>3. LocksTaken' \subseteq Thread \X (1..3) /\ LocksTaken \subseteq Thread \X (1..3)
    BY DEF LocksTaken
  <2> QED BY <2>1, <2>3
<1>3. lock \in LocksTaken
  BY <1>1 DEF LocksTaken
<1> QED BY <1>2, <1>3, LocksFinite, FS_RemoveElement

\* kernel_main leaves the CPU with the interrupt flag set, in the idle task.
LEMMA CpuInit ==
  ASSUME UserInit
  PROVE  CpuInv
<1> USE DEF Current
<1>1. Init /\ Idle \in Thread /\ Clean \in Thread
  BY DEF UserInit, KbdInit, Thread
<1>2. KernelTypeOK /\ CallOK /\ TerminatedOK
  BY <1>1, InitLockInv DEF LockInv, TypeOK, KernelTypeOK
<1>3. CpuTypeOK
  BY <1>1 DEF UserInit, CpuTypeOK, Mode
<1>4. BlankOK /\ SwitchedOK /\ FlagOK
  BY <1>1 DEF UserInit, Init, BlankOK, SwitchedOK, FlagOK, Held, InStuff,
     StuffCall, LockedLabel, New
<1> QED BY <1>2, <1>3, <1>4 DEF CpuInv

\* Every step keeps the invariant.
LEMMA CpuNext ==
  ASSUME UserModeAssumption, CpuInv, [UNext]_uvars
  PROVE  CpuInv'
<1> USE DEF Current
<1>1. CpuTypeOK' /\ FlagOK'
  BY FlagStep
<1>2. CASE Quiet
  <2>1. UNCHANGED <<runq, irq_disable_counter, stuff, pc, service, handler>>
    BY <1>2, QuietFrame
  <2>2. masked' \in BOOLEAN
    <3>1. CASE UKeyIRQ
      BY <3>1 DEF UKeyIRQ, KeyStored, KeyDropped, ClearMasks
    <3>2. CASE SysGetChar
      BY <3>2 DEF SysGetChar, GetChar, GetNothing, ClearMasks
    <3>3. CASE GetToRing3 \/ SysPutChar \/ PrintBegin \/ PrintEnd \/ UNCHANGED uvars
      BY <3>3 DEF GetToRing3, SysPutChar, PrintBegin, PrintEnd, uvars,
         kbdVars, vars, locks, CpuInv, KernelTypeOK
    <3> QED BY <1>2, <3>1, <3>2, <3>3 DEF Quiet
  <2>3. KernelTypeOK'
    BY <2>1, <2>2 DEF CpuInv, KernelTypeOK, runq, stuff, service, handler
  <2>4. CallOK' /\ BlankOK' /\ SwitchedOK' /\ TerminatedOK'
    BY <2>1 DEF CpuInv, CallOK, BlankOK, SwitchedOK, TerminatedOK, Held,
       InStuff, runq, stuff, service, handler
  <2> QED BY <1>1, <2>3, <2>4 DEF CpuInv
<1>3. CASE Services /\ ~Quiet
  <2>1. KernelTypeOK /\ CallOK /\ SwitchedOK /\ TerminatedOK /\ BlankOK
    BY DEF CpuInv
  <2>2. TimerIRQ => call[Current] # "exit"
    <3>1. SUFFICES ASSUME TimerIRQ PROVE call[Current] # "exit"
      OBVIOUS
    <3>2. interrupts /\ isr'[Current] # "none" /\ isr[Current] = "none"
      <4>1. isr'[Current] # "none" /\ isr[Current] = "none"
        BY <2>1, <3>1 DEF TimerIRQ, KernelTypeOK
      <4>2. CASE UKernelStep
        BY <2>1, <4>1, <4>2, KernelCalls DEF UKernelStep, KernelTypeOK
      <4>3. CASE USleep \/ SysExit \/ SysFork
        BY <4>1, <4>3 DEF USleep, SysExit, SysFork, SleepCall, ExitCall,
           StuffEnter, Fork, handler
      <4>4. CASE UHandlerStep
        BY <4>1, <4>4 DEF UHandlerStep, HandlerStep, WalkWake, WalkNext,
           HookTail, HookReturn, Handling
      <4>5. CASE UTimerIRQ
        BY <4>1, <4>5 DEF UTimerIRQ
      <4> QED BY <1>3, <4>2, <4>3, <4>4, <4>5 DEF UNext, Quiet
    <3> QED BY <3>2 DEF CpuInv, FlagOK
  <2> QED BY <1>1, <1>3, <2>1, <2>2, KernelTypeStep, CallStep, SwitchedStep,
     BlankStep, TerminatedStep DEF CpuInv
<1> QED BY <1>2, <1>3, UserSteps

\* task.c, irq.s, switch.s, do_syscall.s: types, the places of all threads,
\* their locks and the interrupt flag stay consistent for every set of tasks,
\* whatever keys, timer and system calls do.
THEOREM CpuInvariant == USpec => []CpuInv
<1>1. UserInit => CpuInv
  BY CpuInit
<1>2. CpuInv /\ [UNext]_uvars => CpuInv'
  BY UserModeAssumption, CpuNext
<1> QED BY <1>1, <1>2, PTL DEF USpec

\* switch.s, irq.s, do_syscall.s: interrupts are off exactly in the timer
\* handler and in sys_exit, for every set of tasks and whichever thread in
\* whatever code was switched to.
THEOREM InterruptFlag == USpec => []InterruptsOffOnlyInHandlers
<1>1. CpuInv => InterruptsOffOnlyInHandlers
  BY DEF CpuInv, KernelTypeOK, FlagOK, InterruptsOffOnlyInHandlers, In, Current
<1> QED BY <1>1, CpuInvariant, PTL

\* kernel_main leaves the lock free, every thread but the running one has the
\* lock of its first switch to give back.
LEMMA LocksInit ==
  ASSUME UserModeAssumption, UserInit
  PROVE  LocksConserved /\ TimerStopsOnlyAfterRead
<1>1. Init /\ Idle \in Thread
  BY DEF UserInit, KbdInit, Thread
<1>2. TimerStopsOnlyAfterRead
  BY <1>1 DEF Init, TimerStopsOnlyAfterRead
<1>3. \A t \in Thread : Held(t) = IF t = Idle THEN 0 ELSE 1
  <2>1. ASSUME NEW t \in Thread
        PROVE  Held(t) = IF t = Idle THEN 0 ELSE 1
    <3>1. pc[t] = (IF t = Idle THEN "run" ELSE "start") /\ call[t] = "none" /\ isr[t] = "none"
      BY <1>1 DEF Init
    <3> QED BY <3>1 DEF Held, InStuff, StuffCall, LockedLabel, BlockLabel,
       UnblockLabel
  <2> QED BY <2>1
<1>4. LocksTaken = (Thread \ {Idle}) \X {1}
  <2>1. ASSUME NEW x \in Thread \X (1..3)
        PROVE  x \in LocksTaken <=> x \in (Thread \ {Idle}) \X {1}
    <3>1. x[1] \in Thread /\ x[2] \in 1..3 /\ x = <<x[1], x[2]>>
      OBVIOUS
    <3>2. x \in LocksTaken <=> x[2] <= Held(x[1])
      BY DEF LocksTaken
    <3>3. x \in LocksTaken <=> x[1] # Idle /\ x[2] = 1
      BY <1>3, <3>1, <3>2
    <3> QED BY <3>1, <3>3
  <2>2. LocksTaken \subseteq Thread \X (1..3) /\ (Thread \ {Idle}) \X {1} \subseteq Thread \X (1..3)
    BY DEF LocksTaken
  <2> QED BY <2>1, <2>2
<1>5. IsFiniteSet(Thread \ {Idle}) /\ Cardinality(Thread \ {Idle}) = Cardinality(Thread) - 1
  BY <1>1, LocksFinite, FS_RemoveElement
<1>6. IsFiniteSet({1}) /\ Cardinality({1}) = 1
  BY FS_Singleton
<1>7. Cardinality((Thread \ {Idle}) \X {1}) = (Cardinality(Thread) - 1) * 1
  BY <1>5, <1>6, FS_Product
<1>8. irq_disable_counter = 0
  BY <1>1 DEF Init
<1>9. Cardinality(LocksTaken) = Cardinality(Thread) - 1
  BY <1>4, <1>7, LocksFinite
<1> QED BY <1>2, <1>8, <1>9, LocksFinite DEF LocksConserved

\* Whoever sets the mask of IRQ0 has taken the scheduler lock, or it is taken.
LEMMA MaskMoves ==
  ASSUME KernelTypeOK, Services, irq_disable_counter' = irq_disable_counter, masked'
  PROVE  masked \/ irq_disable_counter # 0
<1>1. \/ UNCHANGED locks \/ masked' = (irq_disable_counter # 0)
      \/ irq_disable_counter' = irq_disable_counter + 1
      \/ irq_disable_counter' = irq_disable_counter - 1
  <2>1. CASE TimerIRQ \/ HandlerStep
    BY <2>1 DEF TimerIRQ, HandlerStep, WalkWake, WalkNext, HookTail,
       HookReturn, LockScheduler, UnlockScheduler
  <2>2. CASE SleepCall \/ ExitCall \/ CleanCall \/ Fork
    BY <2>2 DEF SleepCall, ExitCall, CleanCall, Fork, StuffEnter, LockStuff,
       LockScheduler
  <2>3. CASE KernelStep /\ ~CleanCall
    BY <2>3 DEF KernelStep, StartUp, SectionLeave, SleepPast, SleepSet,
       ExitWakeClean, Reclaim, ReclaimDone, BlockLock, BlockState, BlockLink,
       BlockSchedule, BlockUnlock, UnblockLock, UnblockMove, UnblockUnlock,
       UnlockPostpone, UnlockIrq, LockScheduler, UnlockScheduler
  <2> QED BY <2>1, <2>2, <2>3 DEF Services
<1>2. /\ irq_disable_counter' # irq_disable_counter + 1
      /\ irq_disable_counter' # irq_disable_counter - 1
  BY DEF KernelTypeOK
<1>3. masked' = masked \/ masked' = (irq_disable_counter # 0)
  BY <1>1, <1>2 DEF locks
<1> QED BY <1>3

\* Every step keeps count of the locks, and of the reason for which IRQ0 is
\* masked.
LEMMA LocksNext ==
  ASSUME UserModeAssumption, CpuInv, LocksConserved, TimerStopsOnlyAfterRead, [UNext]_uvars
  PROVE  LocksConserved' /\ TimerStopsOnlyAfterRead'
<1> USE DEF Current
<1>0. /\ Current \in Thread /\ irq_disable_counter \in Int
      /\ KernelTypeOK /\ CallOK /\ SwitchedOK /\ TerminatedOK
  BY DEF CpuInv, KernelTypeOK
<1>1. irq_disable_counter >= 0
  BY <1>0, LocksEnough, LocksFinite DEF LocksConserved
<1>2. CASE Quiet
  <2>1. UNCHANGED <<irq_disable_counter, pc, service, handler>>
    BY <1>2, QuietFrame
  <2>2. LocksTaken' = LocksTaken
    BY <2>1 DEF LocksTaken, Held, InStuff, service, handler
  <2>3. LocksConserved'
    BY <2>1, <2>2 DEF LocksConserved
  <2>4. masked' => masked1' \/ (masked /\ masked1' = masked1)
    <3>1. CASE UKeyIRQ
      BY <3>1 DEF UKeyIRQ, KeyStored, KeyDropped, ClearMasks
    <3>2. CASE SysGetChar
      BY <3>2 DEF SysGetChar, GetChar, GetNothing, ClearMasks
    <3>3. CASE GetToRing3 \/ SysPutChar \/ PrintBegin \/ PrintEnd \/ UNCHANGED uvars
      BY <3>3 DEF GetToRing3, SysPutChar, PrintBegin, PrintEnd, uvars,
         kbdVars, vars, locks
    <3> QED BY <1>2, <3>1, <3>2, <3>3 DEF Quiet
  <2> QED BY <2>1, <2>3, <2>4 DEF TimerStopsOnlyAfterRead
<1>3. CASE Services /\ ~Quiet
  <2> DEFINE c == current_task_TCB
  <2>1. \A u \in Thread : u # c => Held(u)' = Held(u)
    BY <1>0, <1>3, OthersHold
  <2>2. masked1' = masked1
    BY <1>3 DEF UNext, Quiet, UKernelStep, USleep, UTimerIRQ, UHandlerStep,
       SysExit, SysFork, Keep
  <2>3. PICK t \in Thread : t = c
    BY <1>0
  <2>4. \/ Held(t)' = Held(t) /\ irq_disable_counter' = irq_disable_counter
        \/ Held(t)' = Held(t) + 1 /\ irq_disable_counter' = irq_disable_counter + 1 /\ masked'
        \/ Held(t)' = Held(t) - 1 /\ UnlockScheduler
    BY <1>0, <1>3, <2>3, LockMoves
  <2>5. \A u \in Thread : u # t => Held(u)' = Held(u)
    BY <2>1, <2>3
  <2>6. CASE Held(t)' = Held(t) /\ irq_disable_counter' = irq_disable_counter
    <3>1. \A u \in Thread : Held(u)' = Held(u)
      BY <2>5, <2>6
    <3>2. LocksTaken' = LocksTaken
      BY <3>1 DEF LocksTaken
    <3>3. LocksConserved'
      BY <2>6, <3>2 DEF LocksConserved
    <3>4. masked' => masked \/ irq_disable_counter # 0
      BY <1>0, <1>3, <2>6, MaskMoves
    <3> QED BY <2>2, <2>6, <3>3, <3>4 DEF TimerStopsOnlyAfterRead
  <2>7. CASE Held(t)' = Held(t) + 1 /\ irq_disable_counter' = irq_disable_counter + 1
    <3>1. Cardinality(LocksTaken') = Cardinality(LocksTaken) + 1
      BY <2>5, <2>7, LockCounted
    <3>2. LocksConserved'
      BY <2>7, <3>1, LocksFinite DEF LocksConserved
    <3>3. irq_disable_counter' # 0
      BY <1>0, <1>1, <2>7
    <3> QED BY <3>2, <3>3 DEF TimerStopsOnlyAfterRead
  <2>8. CASE Held(t)' = Held(t) - 1 /\ UnlockScheduler
    <3>1. Cardinality(LocksTaken') = Cardinality(LocksTaken) - 1
      BY <2>5, <2>8, UnlockCounted
    <3>2. LocksConserved'
      BY <2>8, <3>1, LocksFinite DEF LocksConserved, UnlockScheduler
    <3>3. masked' => irq_disable_counter # 1
      BY <2>8 DEF UnlockScheduler
    <3>4. irq_disable_counter' = irq_disable_counter - 1
      BY <2>8 DEF UnlockScheduler
    <3>5. masked' => irq_disable_counter' # 0
      BY <1>0, <3>3, <3>4
    <3> QED BY <3>2, <3>5 DEF TimerStopsOnlyAfterRead
  <2> QED BY <2>4, <2>6, <2>7, <2>8
<1> QED BY <1>2, <1>3, UserSteps

\* The two facts about the scheduler lock and the mask of IRQ0 are kept together.
LEMMA LocksInvariant == USpec => [](LocksConserved /\ TimerStopsOnlyAfterRead)
<1>1. UserInit => LocksConserved /\ TimerStopsOnlyAfterRead
  BY UserModeAssumption, LocksInit
<1>2. CpuInv /\ LocksConserved /\ TimerStopsOnlyAfterRead /\ [UNext]_uvars
        => (LocksConserved /\ TimerStopsOnlyAfterRead)'
  BY UserModeAssumption, LocksNext
<1> QED BY <1>1, <1>2, CpuInvariant, PTL DEF USpec

\* task.c 40-68, keyboard.c 139-170: for every set of tasks,
\* irq_disable_counter is what all threads hold, less the one lock that each
\* thread which does not run owes, although a key press unmasks IRQ0 in the
\* middle of a locked section.
THEOREM LocksCounted == USpec => []LocksConserved
BY LocksInvariant, PTL

\* keyboard.c 139-170: IRQ0 is masked with the lock free only after a character
\* was read, with IRQ1 masked as well.
THEOREM TimerStops == USpec => []TimerStopsOnlyAfterRead
BY LocksInvariant, PTL
-----------------------------------------------------------------------------
(* The kernel stack of a thread in ring 3.                                  *)

\* The loop of init_fs: a task that kernel_main creates and that calls
\* neither nano_sleep nor terminate_task is always there to switch to.
AlwaysReady(w) ==
  /\ pc[w] \in {"start", "run"} /\ state[w] # "NONE"
  /\ \A n \in ListName \ {"ready"} : ~Linked(w, n)
  /\ Current = w => state[w] = "RUNNING"
  /\ Current # w => Linked(w, "ready")

\* A thread is on one list at most, and neither runs then nor is gone, but for
\* the running thread between block_task and its switch; that one may have
\* been woken since, and then others are before it on the ready list.
OnList(t) == \E n \in ListName : Linked(t, n)
LinksOK ==
  /\ \A n \in ListName : NoRepeat(lists[n])
  /\ \A t \in Thread : \A m, n \in ListName : Linked(t, m) /\ Linked(t, n) => m = n
  /\ \A t \in Thread : OnList(t) => state[t] \notin {"NONE", "RUNNING"}
  /\ OnList(Current) => pc[Current] \in {"blk_sched", "blk_unlock", "stuff_post"}
  /\ pc[Current] = "blk_list" => state[Current] # "RUNNING"
  /\ Ready # << >> => Head(Ready) # Current

\* The switch that block_task owes is noted until unlock_stuff makes it.
OwedOK ==
  /\ \A t \in Thread : call[t] \in {"none", "sleep", "exit", "clean"}
  /\ pc[Current] = "blk_unlock" => task_switches_postponed_flag # 0
  /\ pc[Current] = "stuff_post" /\ OnList(Current) => task_switches_postponed_flag # 0

\* No thread that goes to ring 3 is left for the idle task, and the one that
\* runs has its stack in the TSS, unless it is still on its way to the switch
\* of nano_sleep_until.
StackOK(w) ==
  /\ mode[w] = "kernel" /\ left_for_idle = [t \in Thread |-> FALSE]
  /\ \A t \in Thread : mode[t] \in {"slept", "user"} /\ state[t] # "NONE" => pc[t] # "start"
  /\ \A t \in Thread : call[t] = "sleep" /\ pc[t] = "body" => mode[t] = "kernel"
  /\ mode[Current] = "slept" /\ pc[Current] = "stuff_post" => task_switches_postponed_flag # 0
  /\ mode[Current] \in {"slept", "user"} =>
       \/ tss_rsp0 = Current
       \/ mode[Current] = "slept" /\ pc[Current] \in BlockLabel \cup {"stuff_post"}

\* The invariant of the threads' lists in the presence of such a task.
QueueInv(w) == AlwaysReady(w) /\ LinksOK /\ OwedOK

\* What a switch does while that task is there: another thread runs, on no list.
LEMMA DispatchMoves ==
  ASSUME KernelTypeOK, LinksOK, NEW w \in Task, AlwaysReady(w), Dispatch
  PROVE  \/ Ready = << >> /\ Current = w /\ UNCHANGED runq
         \/ /\ Ready # << >> /\ Head(Ready) \in Thread /\ Head(Ready) # Current
            /\ Current' = Head(Ready) /\ Linked(Head(Ready), "ready")
            /\ state' = [t \in Thread |-> IF t = Head(Ready) THEN "RUNNING"
                                          ELSE IF Preempted /\ t = Current THEN "READY"
                                          ELSE state[t]]
            /\ \A m \in ListName : NoRepeat(lists'[m])
            /\ \A t \in Thread : \A m \in ListName :
                 Linked(t, m)' <=> \/ Linked(t, m) /\ ~(m = "ready" /\ t = Head(Ready))
                                   \/ m = "ready" /\ t = Current /\ Preempted
<1>0. /\ lists \in [ListName -> Seq(Thread)] /\ "ready" \in ListName /\ Current \in Thread
      /\ w \in Thread /\ w # Idle /\ \A m \in ListName : NoRepeat(lists[m])
  BY SchedulerAssumption DEF KernelTypeOK, LinksOK, ListName, Current, Thread
<1>1. CASE Ready = << >>
  <2>1. ~Linked(w, "ready")
    BY <1>1 DEF Linked, Occurs, Ready
  <2>2. Current = w /\ state[Current] = "RUNNING"
    BY <2>1 DEF AlwaysReady
  <2> QED BY <1>1, <2>2 DEF Dispatch
<1>2. CASE Ready # << >>
  <2> DEFINE d == Head(Ready)
  <2>1. d \in Thread /\ d # Current /\ Linked(d, "ready")
    BY <1>0, <1>2, OccursHead DEF LinksOK, Linked, Ready
  <2>2. Current' = d
        /\ state' = [t \in Thread |-> IF t = d THEN "RUNNING"
                                      ELSE IF Preempted /\ t = Current THEN "READY"
                                      ELSE state[t]]
    BY <1>2 DEF Dispatch, SwitchTo, Current
  <2>3. CASE Preempted
    <3>1. lists' = DropHead(AddTail(lists, "ready", Current), "ready")
      BY <1>2, <2>3 DEF Dispatch
    <3>2. ~Linked(Current, "ready")
      BY <1>0, <2>3 DEF LinksOK, OnList, Preempted
    <3>3. /\ \A m \in ListName : NoRepeat(lists'[m])
          /\ \A t \in Thread : \A m \in ListName :
               Linked(t, m)' <=> \/ Linked(t, m) /\ ~(m = "ready" /\ t = d)
                                 \/ m = "ready" /\ t = Current
      BY <1>0, <1>2, <3>1, <3>2, PreemptLinks
    <3> QED BY <1>2, <2>1, <2>2, <2>3, <3>3
  <2>4. CASE ~Preempted
    <3>1. lists' = DropHead(lists, "ready")
      BY <1>2, <2>4 DEF Dispatch
    <3>2. /\ \A m \in ListName : NoRepeat(lists'[m])
          /\ \A t \in Thread : \A m \in ListName :
               Linked(t, m)' <=> Linked(t, m) /\ ~(m = "ready" /\ t = d)
      BY <1>0, <1>2, <3>1, DropHeadLinks DEF Ready
    <3> QED BY <1>2, <2>1, <2>2, <2>4, <3>2
  <2> QED BY <2>3, <2>4
<1> QED BY <1>1, <1>2

\* A thread that joins the ready list is not in front of it while it runs.
LEMMA HeadStays ==
  ASSUME NEW S, Ready \in Seq(S), NEW x \in S, Ready' = Append(Ready, x), Current' = Current,
         Ready # << >> => Head(Ready) # Current, x # Current \/ Ready # << >>
  PROVE  Ready' # << >> /\ Head(Ready)' # Current'
<1>1. CASE Ready = << >>
  BY <1>1
<1>2. CASE Ready # << >>
  BY <1>2
<1> QED BY <1>1, <1>2

\* What waking the head of a list does.
LEMMA WakeMoves ==
  ASSUME KernelTypeOK, LinksOK, NEW w \in Task, AlwaysReady(w),
         NEW n \in {"sleeping", "paused"}, NEW h, IsHead(h, n), Wake(h, n), Current' = Current
  PROVE  /\ h \in Thread /\ Linked(h, n) /\ h # w
         /\ state' = [state EXCEPT ![h] = "READY"]
         /\ \A m \in ListName : NoRepeat(lists'[m])
         /\ \A t \in Thread : \A m \in ListName :
              Linked(t, m)' <=> \/ Linked(t, m) /\ ~(m = n /\ t = h)
                                \/ m = "ready" /\ t = h
         /\ Ready' # << >> => Head(Ready)' # Current'
<1>0. /\ lists \in [ListName -> Seq(Thread)] /\ "ready" \in ListName /\ Current \in Thread
      /\ n \in ListName \ {"ready"} /\ \A m \in ListName : NoRepeat(lists[m])
      /\ lists[n] # << >> /\ h = Head(lists[n]) /\ w \in Thread
  BY DEF KernelTypeOK, LinksOK, ListName, Current, IsHead, Thread
<1>1. h \in Thread /\ Linked(h, n)
  BY <1>0, OccursHead DEF Linked
<1>2. ~Linked(h, "ready") /\ h # w
  BY <1>0, <1>1 DEF LinksOK, AlwaysReady
<1>3. lists' = AddTail(DropHead(lists, n), "ready", h) /\ state' = [state EXCEPT ![h] = "READY"]
  BY DEF Wake
<1>4. /\ \A m \in ListName : NoRepeat(lists'[m])
      /\ \A t \in Thread : \A m \in ListName :
           Linked(t, m)' <=> \/ Linked(t, m) /\ ~(m = n /\ t = h)
                             \/ m = "ready" /\ t = h
  BY <1>0, <1>2, <1>3, MoveLinks
<1>5. Ready' = Append(Ready, h)
  <2> DEFINE ls == DropHead(lists, n)
  <2>1. ls \in [ListName -> Seq(Thread)] /\ ls["ready"] = lists["ready"]
    BY <1>0, DropHeadType
  <2>2. lists' = AddTail(ls, "ready", h)
    BY <1>3
  <2> HIDE DEF ls
  <2>3. lists'["ready"] = Append(ls["ready"], h)
    BY <1>0, <1>1, <2>1, <2>2, AddTailType
  <2> QED BY <2>1, <2>3 DEF Ready
<1>6. h # Current \/ Ready # << >>
  <2>1. Ready = << >> => ~Linked(w, "ready")
    BY DEF Ready, Linked, Occurs
  <2> QED BY <1>2, <2>1 DEF AlwaysReady
<1>7. Ready' # << >> => Head(Ready)' # Current'
  <2>1. Ready \in Seq(Thread)
    BY <1>0 DEF Ready
  <2> QED BY <1>1, <1>5, <1>6, <2>1, HeadStays DEF LinksOK
<1> QED BY <1>1, <1>2, <1>3, <1>4, <1>7

\* A step that changes neither states nor lists keeps the lists consistent,
\* when the running thread's new place agrees with them.
LEMMA QueueKept ==
  ASSUME KernelTypeOK, NEW w \in Task, QueueInv(w),
         Current' = Current, state' = state, Ready' = Ready,
         \A m \in ListName : NoRepeat(lists'[m]),
         \A t \in Thread : \A m \in ListName : Linked(t, m)' <=> Linked(t, m),
         \A t \in Thread : call'[t] \in {"none", "sleep", "exit", "clean"},
         \A t \in Thread \ {Current} : pc'[t] = pc[t] \/ t # w,
         Current = w => pc'[w] \in {"start", "run"},
         OnList(Current) => pc'[Current] \in {"blk_sched", "blk_unlock", "stuff_post"},
         pc'[Current] = "blk_list" => state[Current] # "RUNNING",
         pc'[Current] = "blk_unlock" => task_switches_postponed_flag' # 0,
         pc'[Current] = "stuff_post" /\ OnList(Current) => task_switches_postponed_flag' # 0
  PROVE  QueueInv(w)'
<1>0. Current \in Thread /\ w \in Thread
  BY DEF KernelTypeOK, Current, Thread
<1>1. \A t \in Thread : OnList(t)' <=> OnList(t)
  BY DEF OnList
<1>2. OnList(Current)' <=> OnList(Current)
  BY <1>0, <1>1 DEF OnList, Linked
<1>3. AlwaysReady(w)'
  BY <1>0 DEF QueueInv, AlwaysReady, ListName
<1>4. LinksOK'
  BY <1>0, <1>1, <1>2 DEF QueueInv, LinksOK
<1>5. OwedOK'
  BY <1>0, <1>2 DEF QueueInv, OwedOK
<1> QED BY <1>3, <1>4, <1>5 DEF QueueInv

\* The switch: the thread that runs then is on no list and in no section.
LEMMA QueueSwitched ==
  ASSUME CpuInv, NEW w \in Task, QueueInv(w), Dispatch, Ready # << >>,
         UnlockPostpone \/ HookTail
  PROVE  QueueInv(w)'
<1> DEFINE c == Current
<1>a. KernelTypeOK /\ CallOK /\ SwitchedOK /\ TerminatedOK /\ LinksOK /\ AlwaysReady(w) /\ OwedOK
  BY DEF CpuInv, QueueInv
<1>0. /\ c \in Thread /\ w \in Thread /\ w # Idle /\ pc \in [Thread -> Label] /\ call \in [Thread -> Call]
      /\ state \in [Thread -> State] /\ lists \in [ListName -> Seq(Thread)] /\ "ready" \in ListName
  BY <1>a, SchedulerAssumption DEF KernelTypeOK, Current, Thread, ListName
<1>1. PICK d \in Thread :
      /\ d # c /\ Current' = d /\ Linked(d, "ready")
      /\ state' = [t \in Thread |-> IF t = d THEN "RUNNING"
                                    ELSE IF Preempted /\ t = c THEN "READY"
                                    ELSE state[t]]
      /\ \A m \in ListName : NoRepeat(lists'[m])
      /\ \A t \in Thread : \A m \in ListName :
           Linked(t, m)' <=> \/ Linked(t, m) /\ ~(m = "ready" /\ t = d)
                             \/ m = "ready" /\ t = c /\ Preempted
  BY <1>a, DispatchMoves
<1>2. call' = call /\ \A t \in Thread \ {c} : pc'[t] = pc[t]
  BY <1>0 DEF UnlockPostpone, HookTail, Goto, service, Current
<1>3. Preempted => ~OnList(c)
  BY <1>0, <1>a DEF LinksOK, Preempted
<1> HIDE DEF c
<1>4. pc'[d] \notin {"blk_list", "blk_unlock", "stuff_post"}
  <2>1. ~InStuff(d)
    BY <1>1, <1>a DEF SwitchedOK, c
  <2>2. call[d] \in {"none", "sleep", "exit", "clean"}
    BY <1>1, <1>a DEF OwedOK
  <2>3. pc[d] \notin {"blk_list", "blk_unlock", "stuff_post"}
    BY <1>1, <1>a, <2>1, <2>2 DEF InStuff, CallOK, StuffCall, BlockLabel
  <2> QED BY <1>1, <1>2, <2>3
<1>5. \A m \in ListName : ~Linked(d, m)'
  BY <1>0, <1>1, <1>a DEF LinksOK
<1>6. ~OnList(Current)'
  BY <1>1, <1>5 DEF OnList, Linked
<1>7. AlwaysReady(w)'
  <2>1. pc'[w] \in {"start", "run"}
    <3>1. CASE c = w
      <4>1. HookTail
        BY <1>a, <3>1 DEF UnlockPostpone, At, AlwaysReady, c
      <4> QED BY <1>a, <4>1 DEF HookTail, AlwaysReady
    <3> QED BY <1>0, <1>2, <1>a, <3>1 DEF AlwaysReady
  <2>2. state'[w] # "NONE" /\ (d = w => state'[w] = "RUNNING")
    BY <1>0, <1>1, <1>a DEF AlwaysReady
  <2>3. \A n \in ListName \ {"ready"} : ~Linked(w, n)'
    BY <1>0, <1>1, <1>a DEF AlwaysReady
  <2>4. d # w => Linked(w, "ready")'
    <3>1. c = w => Preempted
      BY <1>0, <1>a DEF AlwaysReady, Preempted, c
    <3>2. c # w => Linked(w, "ready")
      BY <1>a DEF AlwaysReady, c
    <3> QED BY <1>0, <1>1, <3>1, <3>2
  <2> QED BY <1>1, <2>1, <2>2, <2>3, <2>4 DEF AlwaysReady
<1>8. \A t \in Thread : \A m, n \in ListName : Linked(t, m)' /\ Linked(t, n)' => m = n
  BY <1>0, <1>1, <1>3, <1>a DEF LinksOK, OnList
<1>9. \A t \in Thread : OnList(t)' => state'[t] \notin {"NONE", "RUNNING"}
  <2>1. ASSUME NEW t \in Thread, NEW m \in ListName, Linked(t, m)'
        PROVE  state'[t] \notin {"NONE", "RUNNING"}
    <3>1. t # d
      BY <1>5, <2>1
    <3>2. CASE t = c /\ Preempted
      BY <1>1, <3>1, <3>2
    <3>3. CASE ~(t = c /\ Preempted)
      <4>1. OnList(t) /\ state'[t] = state[t]
        BY <1>0, <1>1, <2>1, <3>1, <3>3 DEF OnList
      <4> QED BY <1>a, <4>1 DEF LinksOK
    <3> QED BY <3>2, <3>3
  <2> QED BY <2>1 DEF OnList
<1>10. Ready' # << >> => Head(Ready)' # Current'
  <2>1. SUFFICES ASSUME Ready' # << >> PROVE Head(Ready)' # d
    BY <1>1
  <2>2. Ready' \in Seq(Thread)
    <3>1. lists' \in [ListName -> Seq(Thread)]
      BY <1>0, <1>a, DispatchType DEF KernelTypeOK
    <3> QED BY <1>0, <3>1 DEF Ready
  <2>3. PICK h \in Thread : h = Head(Ready') /\ Occurs(h, Ready')
    BY <2>1, <2>2, OccursHead
  <2>4. Linked(h, "ready")'
    BY <2>3 DEF Linked, Ready
  <2> QED BY <1>0, <1>5, <2>3, <2>4
<1>11. LinksOK'
  BY <1>1, <1>4, <1>6, <1>8, <1>9, <1>10 DEF LinksOK
<1>12. OwedOK'
  BY <1>1, <1>2, <1>4, <1>a DEF OwedOK
<1> QED BY <1>7, <1>11, <1>12 DEF QueueInv

\* unblock_task: the running thread may wake itself in the timer handler, and
\* then others are before it.
LEMMA QueueWoken ==
  ASSUME CpuInv, NEW w \in Task, QueueInv(w), UnblockMove \/ WalkWake
  PROVE  QueueInv(w)'
<1> DEFINE c == Current
<1>a. KernelTypeOK /\ CallOK /\ SwitchedOK /\ LinksOK /\ AlwaysReady(w) /\ OwedOK
  BY DEF CpuInv, QueueInv
<1>0. /\ c \in Thread /\ w \in Thread /\ pc \in [Thread -> Label] /\ state \in [Thread -> State]
      /\ "ready" \in ListName /\ lists \in [ListName -> Seq(Thread)]
  BY <1>a DEF KernelTypeOK, Current, Thread, ListName
<1>1. /\ Current' = c /\ call' = call /\ task_switches_postponed_flag' = task_switches_postponed_flag
      /\ \A t \in Thread \ {c} : pc'[t] = pc[t]
      /\ pc' = pc \/ (pc[c] = "unb" /\ pc'[c] = "unb_unlock")
  BY <1>0 DEF UnblockMove, WalkWake, Goto, At, service, stuff, Current
<1>2. PICK h : Unblock(h)
  BY DEF UnblockMove, WalkWake
<1> HIDE DEF c
<1>3. CASE UNCHANGED <<lists, state>>
  <2>1. \A m \in ListName : NoRepeat(lists'[m])
    BY <1>3, <1>a DEF LinksOK
  <2>2. \A t \in Thread : \A m \in ListName : Linked(t, m)' <=> Linked(t, m)
    BY <1>3 DEF Linked
  <2>3. Ready' = Ready
    BY <1>3 DEF Ready
  <2>4. /\ \A t \in Thread : call'[t] \in {"none", "sleep", "exit", "clean"}
        /\ c = w => pc'[w] \in {"start", "run"}
        /\ OnList(c) => pc'[c] \in {"blk_sched", "blk_unlock", "stuff_post"}
        /\ pc'[c] = "blk_list" => state[c] # "RUNNING"
        /\ pc'[c] = "blk_unlock" => task_switches_postponed_flag' # 0
        /\ pc'[c] = "stuff_post" /\ OnList(c) => task_switches_postponed_flag' # 0
    BY <1>1, <1>a DEF AlwaysReady, LinksOK, OwedOK, c
  <2> QED BY <1>1, <1>3, <1>a, <2>1, <2>2, <2>3, <2>4, QueueKept DEF c
<1>4. CASE ~UNCHANGED <<lists, state>>
  <2>1. PICK n \in {"sleeping", "paused"} : IsHead(h, n) /\ Wake(h, n)
    BY <1>2, <1>4 DEF Unblock
  <2>2. /\ h \in Thread /\ Linked(h, n) /\ h # w
        /\ state' = [state EXCEPT ![h] = "READY"]
        /\ \A m \in ListName : NoRepeat(lists'[m])
        /\ \A t \in Thread : \A m \in ListName :
             Linked(t, m)' <=> \/ Linked(t, m) /\ ~(m = n /\ t = h)
                               \/ m = "ready" /\ t = h
        /\ Ready' # << >> => Head(Ready)' # Current'
    BY <1>1, <1>a, <2>1, WakeMoves DEF c
  <2>3. n \in ListName
    BY DEF ListName
  <2>4. \A t \in Thread : OnList(t)' <=> OnList(t)
    BY <1>0, <2>2, <2>3 DEF OnList
  <2>5. OnList(Current)' <=> OnList(c)
    BY <1>0, <1>1, <2>4 DEF OnList, Linked
  <2>6. AlwaysReady(w)'
    <3>1. pc'[w] \in {"start", "run"}
      BY <1>0, <1>1, <1>a DEF AlwaysReady
    <3>2. \A m \in ListName : Linked(w, m)' <=> Linked(w, m)
      BY <1>0, <2>2
    <3> QED BY <1>0, <1>1, <1>a, <2>2, <3>1, <3>2 DEF AlwaysReady, c
  <2>7. \A t \in Thread : \A k, m \in ListName : Linked(t, k)' /\ Linked(t, m)' => k = m
    BY <1>0, <1>a, <2>2, <2>3 DEF LinksOK
  <2>8. \A t \in Thread : OnList(t)' => state'[t] \notin {"NONE", "RUNNING"}
    BY <1>0, <1>a, <2>2, <2>4 DEF LinksOK
  <2>9. OnList(c) => pc'[c] \in {"blk_sched", "blk_unlock", "stuff_post"}
    BY <1>1, <1>a DEF LinksOK, c
  <2>10. pc'[c] = "blk_list" => state'[c] # "RUNNING"
    BY <1>0, <1>1, <1>a, <2>2 DEF LinksOK, c
  <2>11. LinksOK'
    BY <1>1, <2>2, <2>5, <2>7, <2>8, <2>9, <2>10 DEF LinksOK
  <2>12. OwedOK'
    BY <1>1, <1>a, <2>5 DEF OwedOK, c
  <2> QED BY <2>6, <2>11, <2>12 DEF QueueInv
<1> QED BY <1>3, <1>4

\* create_task takes a TCB that is on no list to the tail of the ready list.
LEMMA QueueForked ==
  ASSUME CpuInv, NEW w \in Task, QueueInv(w), Fork
  PROVE  QueueInv(w)'
<1> DEFINE c == Current
<1>a. KernelTypeOK /\ LinksOK /\ AlwaysReady(w) /\ OwedOK /\ BlankOK
  BY DEF CpuInv, QueueInv
<1>0. /\ c \in Thread /\ w \in Thread /\ state \in [Thread -> State] /\ "ready" \in ListName
      /\ lists \in [ListName -> Seq(Thread)] /\ \A m \in ListName : NoRepeat(lists[m])
  BY <1>a DEF KernelTypeOK, Current, Thread, ListName, LinksOK
<1>1. /\ Current' = c /\ pc' = pc /\ call' = call /\ pc[c] = "run"
      /\ task_switches_postponed_flag' = task_switches_postponed_flag
  BY DEF Fork, MayCall, At, service, stuff, Current
<1>2. PICK new \in Thread : /\ state[new] = "NONE" /\ state' = [state EXCEPT ![new] = "READY"]
                            /\ lists' = AddTail(lists, "ready", new)
  BY DEF Fork, Thread
<1>3. \A m \in ListName : ~Linked(new, m)
  BY <1>2, <1>a DEF LinksOK, OnList
<1>4. new # c /\ new # w
  BY <1>2, <1>a DEF BlankOK, AlwaysReady
<1>5. /\ \A m \in ListName : NoRepeat(lists'[m])
      /\ \A t \in Thread : \A m \in ListName :
           Linked(t, m)' <=> Linked(t, m) \/ (m = "ready" /\ t = new)
  BY <1>0, <1>2, <1>3, AddTailLinks
<1>6. Ready' # << >> => Head(Ready)' # Current'
  <2>1. Ready \in Seq(Thread) /\ Ready' = Append(Ready, new)
    BY <1>0, <1>2, AddTailType DEF Ready
  <2> QED BY <1>1, <1>4, <1>a, <2>1, HeadStays DEF LinksOK
<1> HIDE DEF c
<1>7. ~OnList(Current)'
  <2>1. ~OnList(c)
    BY <1>1, <1>a DEF LinksOK, c
  <2>2. \A m \in ListName : ~Linked(c, m)
    BY <2>1 DEF OnList
  <2> QED BY <1>0, <1>1, <1>4, <1>5, <2>2 DEF OnList, Linked
<1>8. AlwaysReady(w)'
  BY <1>0, <1>1, <1>2, <1>4, <1>5, <1>a DEF AlwaysReady, c
<1>9. \A t \in Thread : \A k, m \in ListName : Linked(t, k)' /\ Linked(t, m)' => k = m
  BY <1>0, <1>3, <1>5, <1>a DEF LinksOK
<1>10. \A t \in Thread : OnList(t)' => state'[t] \notin {"NONE", "RUNNING"}
  BY <1>0, <1>2, <1>5, <1>a DEF LinksOK, OnList
<1>11. LinksOK'
  BY <1>1, <1>5, <1>6, <1>7, <1>9, <1>10 DEF LinksOK
<1>12. OwedOK'
  BY <1>1, <1>7, <1>a DEF OwedOK
<1> QED BY <1>8, <1>11, <1>12 DEF QueueInv

\* kernel_clean_work takes a TCB off the terminated list, the only one it is on.
LEMMA QueueReclaimed ==
  ASSUME CpuInv, NEW w \in Task, QueueInv(w), Reclaim
  PROVE  QueueInv(w)'
<1> DEFINE c == Current
<1>a. KernelTypeOK /\ SwitchedOK /\ TerminatedOK /\ LinksOK /\ AlwaysReady(w) /\ OwedOK
  BY DEF CpuInv, QueueInv
<1>0. /\ c \in Thread /\ w \in Thread /\ state \in [Thread -> State] /\ "ready" \in ListName
      /\ pc \in [Thread -> Label] /\ call \in [Thread -> Call] /\ "terminated" \in ListName
      /\ lists \in [ListName -> Seq(Thread)] /\ \A m \in ListName : NoRepeat(lists[m])
  BY <1>a DEF KernelTypeOK, Current, Thread, ListName, LinksOK
<1>1. /\ lists["terminated"] # << >> /\ lists' = DropHead(lists, "terminated") /\ pc[c] = "body"
      /\ task_switches_postponed_flag' = task_switches_postponed_flag
  BY DEF Reclaim, At, stuff, Current
<1>2. PICK dead \in Thread :
        /\ dead = Head(lists["terminated"]) /\ dead # c /\ pc[dead] = "stuff_irq" /\ Current' = c
        /\ pc' = [pc EXCEPT ![dead] = "start"] /\ call' = [call EXCEPT ![dead] = "none"]
        /\ state' = [state EXCEPT ![dead] = "NONE"]
  BY <1>a, ReclaimedThread
<1>3. /\ \A m \in ListName : NoRepeat(lists'[m])
      /\ \A t \in Thread : \A m \in ListName :
           Linked(t, m)' <=> Linked(t, m) /\ ~(m = "terminated" /\ t = dead)
  BY <1>0, <1>1, <1>2, DropHeadLinks
<1>4. Linked(dead, "terminated") /\ dead # w
  <2>1. Linked(dead, "terminated")
    BY <1>0, <1>1, <1>2, OccursHead DEF Linked
  <2> QED BY <1>0, <1>2, <1>a, <2>1 DEF AlwaysReady
<1>5. Ready' = Ready
  BY <1>0, <1>1, DropHeadType DEF Ready
<1> HIDE DEF c
<1>6. ~OnList(Current)'
  <2>1. ~OnList(c)
    BY <1>1, <1>a DEF LinksOK, c
  <2>2. \A m \in ListName : ~Linked(c, m)
    BY <2>1 DEF OnList
  <2> QED BY <1>0, <1>2, <1>3, <2>2 DEF OnList, Linked
<1>7. AlwaysReady(w)'
  BY <1>0, <1>2, <1>3, <1>4, <1>a DEF AlwaysReady, c
<1>8. \A t \in Thread : \A k, m \in ListName : Linked(t, k)' /\ Linked(t, m)' => k = m
  BY <1>3, <1>a DEF LinksOK
<1>9. \A t \in Thread : OnList(t)' => state'[t] \notin {"NONE", "RUNNING"}
  <2>1. ASSUME NEW t \in Thread, NEW m \in ListName, Linked(t, m)'
        PROVE  state'[t] \notin {"NONE", "RUNNING"}
    <3>1. t # dead
      BY <1>0, <1>3, <1>4, <1>a, <2>1 DEF LinksOK
    <3>2. OnList(t)
      BY <1>3, <2>1 DEF OnList
    <3> QED BY <1>0, <1>2, <1>a, <3>1, <3>2 DEF LinksOK
  <2> QED BY <2>1 DEF OnList
<1>10. pc'[Current'] = "body"
  BY <1>0, <1>1, <1>2
<1>11. LinksOK'
  BY <1>2, <1>3, <1>5, <1>6, <1>8, <1>9, <1>10, <1>a DEF LinksOK, c
<1>12. OwedOK'
  BY <1>0, <1>2, <1>10, <1>a DEF OwedOK
<1> QED BY <1>7, <1>11, <1>12 DEF QueueInv

\* The two writes of block_task.
LEMMA QueueBlocked ==
  ASSUME CpuInv, NEW w \in Task, QueueInv(w), BlockState \/ BlockLink
  PROVE  QueueInv(w)'
<1> DEFINE c == Current
<1>a. KernelTypeOK /\ CallOK /\ LinksOK /\ AlwaysReady(w) /\ OwedOK /\ BlankOK
  BY DEF CpuInv, QueueInv
<1>0. /\ c \in Thread /\ w \in Thread /\ state \in [Thread -> State] /\ "ready" \in ListName
      /\ pc \in [Thread -> Label] /\ lists \in [ListName -> Seq(Thread)]
      /\ \A m \in ListName : NoRepeat(lists[m])
  BY <1>a DEF KernelTypeOK, Current, Thread, ListName, LinksOK
<1>1. /\ Current' = c /\ call' = call /\ task_switches_postponed_flag' = task_switches_postponed_flag
      /\ \A t \in Thread \ {c} : pc'[t] = pc[t]
  BY <1>0 DEF BlockState, BlockLink, Goto, service, stuff, Current
<1>2. pc[c] \in {"blk_state", "blk_list"} /\ c # w /\ ~OnList(c)
  BY <1>a DEF BlockState, BlockLink, At, AlwaysReady, LinksOK
<1>3. call[c] \in {"sleep", "exit", "clean"}
  BY <1>0, <1>2, <1>a DEF CallOK, OwedOK, BlockLabel
<1> HIDE DEF c
<1>4. CASE BlockState
  <2>1. /\ pc'[c] = "blk_list" /\ state' = [state EXCEPT ![c] = Reason(call[c])] /\ lists' = lists
    BY <1>0, <1>3, <1>4 DEF BlockState, Goto, In, c
  <2>2. Reason(call[c]) \notin {"NONE", "RUNNING"}
    BY DEF Reason
  <2>3. \A t \in Thread : OnList(t)' <=> OnList(t)
    BY <2>1 DEF OnList, Linked
  <2>4. ~OnList(Current)'
    BY <1>1, <1>2, <2>1 DEF OnList, Linked
  <2>5. AlwaysReady(w)'
    BY <1>0, <1>1, <1>2, <1>a, <2>1 DEF AlwaysReady, Linked, c
  <2>6. LinksOK'
    <3>1. \A t \in Thread : OnList(t)' => state'[t] \notin {"NONE", "RUNNING"}
      BY <1>0, <1>2, <1>a, <2>1, <2>3 DEF LinksOK
    <3>2. \A t \in Thread : \A k, m \in ListName : Linked(t, k)' /\ Linked(t, m)' => k = m
      BY <1>a, <2>1 DEF LinksOK, Linked
    <3>3. state'[c] # "RUNNING"
      BY <1>0, <2>1, <2>2
    <3>4. Ready' = Ready
      BY <2>1 DEF Ready
    <3> QED BY <1>0, <1>1, <1>a, <2>1, <2>4, <3>1, <3>2, <3>3, <3>4 DEF LinksOK, c
  <2>7. OwedOK'
    BY <1>1, <1>a, <2>1 DEF OwedOK
  <2> QED BY <2>5, <2>6, <2>7 DEF QueueInv
<1>5. CASE BlockLink
  <2>1. /\ pc[c] = "blk_list" /\ pc'[c] = "blk_sched" /\ state' = state
        /\ lists' = AddTail(lists, ListOf(call[c]), c)
    BY <1>0, <1>5 DEF BlockLink, Goto, At, c
  <2>2. PICK n \in ListName \ {"ready"} : n = ListOf(call[c])
    BY DEF ListOf, ListName
  <2>3. /\ \A m \in ListName : NoRepeat(lists'[m])
        /\ \A t \in Thread : \A m \in ListName :
             Linked(t, m)' <=> Linked(t, m) \/ (m = n /\ t = c)
    <3>1. ~Linked(c, n)
      BY <1>2 DEF OnList
    <3> QED BY <1>0, <2>1, <2>2, <3>1, AddTailLinks
  <2>4. Ready' = Ready
    BY <1>0, <2>1, <2>2, AddTailType DEF Ready
  <2>5. AlwaysReady(w)'
    BY <1>0, <1>1, <1>2, <1>a, <2>1, <2>3 DEF AlwaysReady, c
  <2>6. LinksOK'
    <3>1. state[c] \notin {"NONE", "RUNNING"}
      BY <1>0, <1>a, <2>1 DEF LinksOK, BlankOK, c
    <3>2. \A t \in Thread : OnList(t)' => state'[t] \notin {"NONE", "RUNNING"}
      BY <1>a, <2>1, <2>3, <3>1 DEF LinksOK, OnList
    <3>3. \A t \in Thread : \A k, m \in ListName : Linked(t, k)' /\ Linked(t, m)' => k = m
      BY <1>2, <1>a, <2>3 DEF LinksOK, OnList
    <3> QED BY <1>0, <1>1, <1>a, <2>1, <2>3, <2>4, <3>2, <3>3 DEF LinksOK, c
  <2>7. OwedOK'
    BY <1>1, <1>a, <2>1 DEF OwedOK
  <2> QED BY <2>5, <2>6, <2>7 DEF QueueInv
<1> QED BY <1>4, <1>5

\* A step after which states, lists and the thread that runs are the same.
LEMMA QueueSame ==
  ASSUME CpuInv, NEW w \in Task, QueueInv(w), Services, ~Reclaim,
         Current' = Current, state' = state, lists' = lists,
         call'[Current] \in {"none", "sleep", "exit", "clean"},
         Current = w => pc'[w] \in {"start", "run"},
         OnList(Current) => pc'[Current] \in {"blk_sched", "blk_unlock", "stuff_post"},
         pc'[Current] = "blk_list" => state[Current] # "RUNNING",
         pc'[Current] = "blk_unlock" => task_switches_postponed_flag' # 0,
         pc'[Current] = "stuff_post" /\ OnList(Current) => task_switches_postponed_flag' # 0
  PROVE  QueueInv(w)'
<1>1. KernelTypeOK /\ LinksOK /\ OwedOK
  BY DEF CpuInv, QueueInv
<1>2. \A t \in Thread \ {Current} : pc'[t] = pc[t] /\ call'[t] = call[t]
  BY <1>1, OthersStay
<1>3. \A t \in Thread : call'[t] \in {"none", "sleep", "exit", "clean"}
  BY <1>1, <1>2 DEF OwedOK
<1>4. Ready' = Ready
  BY DEF Ready
<1>5. \A m \in ListName : NoRepeat(lists'[m])
  BY <1>1 DEF LinksOK
<1>6. \A t \in Thread : \A m \in ListName : Linked(t, m)' <=> Linked(t, m)
  BY DEF Linked
<1> QED BY <1>1, <1>2, <1>3, <1>4, <1>5, <1>6, QueueKept

\* The timer handler's turn round the sleeping list.
LEMMA QueueTurned ==
  ASSUME CpuInv, NEW w \in Task, QueueInv(w), WalkNext
  PROVE  QueueInv(w)'
<1>1. /\ KernelTypeOK /\ LinksOK /\ OwedOK /\ AlwaysReady(w)
      /\ lists \in [ListName -> Seq(Thread)] /\ "sleeping" \in ListName /\ "ready" \in ListName
      /\ lists["sleeping"] # << >>
  BY DEF CpuInv, QueueInv, KernelTypeOK, ListName, SwitchedOK, WalkNext, Handling
<1>2. /\ Current' = Current /\ state' = state /\ lists' = Rotate(lists, "sleeping")
      /\ pc' = pc /\ call' = call /\ task_switches_postponed_flag' = task_switches_postponed_flag
  BY DEF WalkNext, Current, stuff, service
<1>3. /\ \A m \in ListName : NoRepeat(lists'[m])
      /\ \A t \in Thread : \A m \in ListName : Linked(t, m)' <=> Linked(t, m)
  BY <1>1, <1>2, RotateLinks DEF LinksOK
<1>4. Ready' = Ready
  BY <1>1, <1>2, RotateType DEF Ready
<1> QED BY <1>1, <1>2, <1>3, <1>4, QueueKept DEF AlwaysReady, LinksOK, OwedOK

\* The scheduler keeps such a task on the ready list while another runs.
LEMMA QueueStep ==
  ASSUME SchedulerAssumption, CpuInv, NEW w \in Task, Calls[w] \cap {"sleep", "exit"} = {},
         QueueInv(w), Services
  PROVE  QueueInv(w)'
<1> DEFINE c == Current
<1>a. /\ KernelTypeOK /\ CallOK /\ SwitchedOK /\ TerminatedOK /\ LinksOK /\ OwedOK /\ AlwaysReady(w)
  BY DEF CpuInv, QueueInv
<1>0. /\ c \in Thread /\ w \in Thread /\ w # Clean
      /\ pc \in [Thread -> Label] /\ call \in [Thread -> Call]
  BY <1>a, SchedulerAssumption DEF KernelTypeOK, Current, Thread
<1>b. /\ c = w => pc[c] \in {"start", "run"}
      /\ OnList(c) => pc[c] \in {"blk_sched", "blk_unlock", "stuff_post"}
      /\ call[c] \in {"none", "sleep", "exit", "clean"}
      /\ pc[c] = "blk_list" => state[c] # "RUNNING"
      /\ pc[c] = "blk_unlock" => task_switches_postponed_flag # 0
      /\ pc[c] = "stuff_post" /\ OnList(c) => task_switches_postponed_flag # 0
  BY <1>0, <1>a DEF AlwaysReady, LinksOK, OwedOK
<1>c. InStuff(c) => postpone_task_switches_counter = 1
  BY <1>a DEF SwitchedOK
<1>1. CASE UnblockMove \/ WalkWake
  BY <1>1, QueueWoken
<1>2. CASE Fork
  BY <1>2, QueueForked
<1>3. CASE Reclaim
  BY <1>3, QueueReclaimed
<1>4. CASE BlockState \/ BlockLink
  BY <1>4, QueueBlocked
<1>5. CASE WalkNext
  BY <1>5, QueueTurned
<1>6. CASE (UnlockPostpone \/ HookTail) /\ Dispatch /\ Ready # << >>
  BY <1>6, QueueSwitched
<1>7. CASE TimerIRQ \/ HookReturn \/ (HookTail /\ ~(Dispatch /\ Ready # << >>))
  <2>1. ~Reclaim
    BY <1>7, <1>a DEF TimerIRQ, HookReturn, HookTail, Handling, Reclaim, At, handler, KernelTypeOK, Current
  <2>2. /\ Current' = Current /\ state' = state /\ lists' = lists /\ pc' = pc /\ call' = call
        /\ task_switches_postponed_flag' = task_switches_postponed_flag
           \/ task_switches_postponed_flag' = 1
    BY <1>7 DEF TimerIRQ, HookReturn, HookTail, Schedule, runq, stuff, service, Current
  <2> QED BY <1>b, <2>1, <2>2, QueueSame
<1>8. CASE SleepCall \/ ExitCall \/ CleanCall
  <2>1. c # w /\ pc[c] = "run"
    BY <1>0, <1>8 DEF SleepCall, ExitCall, CleanCall, MayCall, At, Current
  <2>2. /\ Current' = Current /\ state' = state /\ lists' = lists /\ pc'[c] = "body"
        /\ call'[c] \in {"sleep", "exit", "clean"}
    BY <1>0, <1>8 DEF SleepCall, ExitCall, CleanCall, StuffEnter, Enter, Goto, runq, Current
  <2>3. ~Reclaim
    BY <2>1 DEF Reclaim, At
  <2> QED BY <1>b, <2>1, <2>2, <2>3, QueueSame
<1>9. CASE BlockSchedule
  <2>1. pc[c] = "blk_sched" /\ InStuff(c)
    BY <1>0, <1>9, <1>a, <1>b DEF BlockSchedule, At, CallOK, BlockLabel, InStuff, StuffCall
  <2>2. /\ Current' = Current /\ state' = state /\ lists' = lists /\ pc'[c] = "blk_unlock"
        /\ call' = call /\ task_switches_postponed_flag' = 1
    BY <1>0, <1>9, <1>c, <2>1 DEF BlockSchedule, Schedule, Goto, service, runq, Current
  <2>3. ~Reclaim
    BY <2>1 DEF Reclaim, At
  <2> QED BY <1>b, <2>1, <2>2, <2>3, QueueSame
<1>10. CASE UnlockPostpone /\ ~(Dispatch /\ Ready # << >>)
  <2>1. pc[c] = "stuff_post" /\ InStuff(c)
    BY <1>0, <1>10, <1>a, <1>b DEF UnlockPostpone, At, CallOK, InStuff
  <2>2. ~Dispatch \/ task_switches_postponed_flag = 0
    BY <1>10, <1>a, <1>b, <2>1, DispatchMoves
  <2>3. /\ task_switches_postponed_flag = 0
        /\ Current' = Current /\ state' = state /\ lists' = lists /\ pc'[c] = "stuff_irq"
        /\ call' = call
    BY <1>0, <1>10, <1>c, <2>1, <2>2 DEF UnlockPostpone, Goto, service, runq, Current
  <2>4. ~Reclaim
    BY <2>1 DEF Reclaim, At
  <2> QED BY <1>b, <2>1, <2>3, <2>4, QueueSame
<1>11. CASE \/ StartUp \/ SectionLeave \/ SleepPast \/ SleepSet \/ ExitWakeClean
            \/ ReclaimDone \/ BlockLock \/ BlockUnlock \/ UnblockLock \/ UnblockUnlock \/ UnlockIrq
  <2>1. /\ Current' = Current /\ state' = state /\ lists' = lists
        /\ task_switches_postponed_flag' = task_switches_postponed_flag
    BY <1>11 DEF StartUp, SectionLeave, SleepPast, SleepSet, ExitWakeClean, ReclaimDone,
       BlockLock, BlockUnlock, UnblockLock, UnblockUnlock, UnlockIrq, runq, stuff, Current
  <2>2. ~Reclaim
    BY <1>11 DEF StartUp, SectionLeave, SleepPast, SleepSet, ExitWakeClean, ReclaimDone,
       BlockLock, BlockUnlock, UnblockLock, UnblockUnlock, UnlockIrq, Reclaim, At, In
  <2>3. CASE StartUp
    <3>1. pc[c] = "start" /\ pc'[c] = "run" /\ call' = call
      BY <1>0, <2>3 DEF StartUp, At, Goto, service, Current
    <3> QED BY <1>b, <2>1, <2>2, <3>1, QueueSame
  <2>4. CASE SectionLeave
    BY <1>0, <1>a, <1>b, <2>4 DEF SectionLeave, At, CallOK
  <2>5. CASE SleepPast \/ SleepSet \/ ExitWakeClean \/ ReclaimDone \/ BlockLock \/ UnblockLock
    <3>1. /\ pc[c] \in {"body", "blk_enter", "unb_enter"} /\ call' = call
          /\ pc'[c] \in {"stuff_post", "blk_enter", "unb_enter", "blk_state", "unb"}
      BY <1>0, <2>5 DEF SleepPast, SleepSet, ExitWakeClean, ReclaimDone, BlockLock, UnblockLock,
         At, Goto, service, Current
    <3> QED BY <1>b, <2>1, <2>2, <3>1, QueueSame
  <2>6. CASE BlockUnlock
    <3>1. pc[c] = "blk_unlock" /\ pc'[c] = "stuff_post" /\ call' = call
      BY <1>0, <1>b, <2>6 DEF BlockUnlock, At, In, Goto, service, Current
    <3> QED BY <1>b, <2>1, <2>2, <3>1, QueueSame
  <2>7. CASE UnblockUnlock
    <3>1. pc[c] = "unb_unlock" /\ pc'[c] \in {"blk_enter", "stuff_post"} /\ call' = call
      BY <1>0, <1>b, <2>7 DEF UnblockUnlock, At, In, Goto, service, Current
    <3> QED BY <1>b, <2>1, <2>2, <3>1, QueueSame
  <2>8. CASE UnlockIrq
    <3>1. pc[c] = "stuff_irq" /\ pc'[c] \in {"run", "wild"} /\ call'[c] \in {"none", call[c]}
      BY <1>0, <1>b, <2>8 DEF UnlockIrq, Return, At, Goto, service, Current
    <3> QED BY <1>b, <2>1, <2>2, <3>1, QueueSame
  <2> QED BY <1>11, <2>3, <2>4, <2>5, <2>6, <2>7, <2>8
<1> QED BY <1>1, <1>2, <1>3, <1>4, <1>5, <1>6, <1>7, <1>8, <1>9, <1>10, <1>11
  DEF Services, KernelStep, HandlerStep

\* Where the running thread gets to while it runs on.
LEMMA PlaceMoves ==
  ASSUME SchedulerAssumption, CpuInv, NEW w \in Task, QueueInv(w), Services,
         NEW c, c = Current, Current' = c
  PROVE  /\ pc'[c] = "start" => pc[c] = "start"
         /\ pc'[c] = "body" /\ call'[c] = "sleep" =>
              (pc[c] = "run" /\ SleepCall) \/ (pc[c] = "body" /\ call[c] = "sleep")
         /\ pc'[c] = "stuff_post" =>
              \/ task_switches_postponed_flag' # 0
              \/ pc[c] = "stuff_post" /\ task_switches_postponed_flag' = task_switches_postponed_flag
              \/ pc[c] = "body" /\ call[c] = "sleep"
         /\ /\ c # w /\ pc[c] \in BlockLabel \cup {"stuff_post"}
            /\ pc[c] = "stuff_post" => task_switches_postponed_flag # 0
            => pc'[c] \in BlockLabel \cup {"stuff_post"}
<1>a. /\ KernelTypeOK /\ CallOK /\ SwitchedOK /\ TerminatedOK /\ LinksOK /\ OwedOK /\ AlwaysReady(w)
  BY DEF CpuInv, QueueInv
<1>0. /\ c \in Thread /\ pc \in [Thread -> Label] /\ call \in [Thread -> Call]
      /\ call[c] \in {"none", "sleep", "exit", "clean"}
  BY <1>a DEF KernelTypeOK, Current, OwedOK
<1>1. CASE TimerIRQ \/ HandlerStep \/ Fork
  <2>1. /\ pc' = pc /\ call' = call
        /\ task_switches_postponed_flag' = task_switches_postponed_flag
           \/ task_switches_postponed_flag' # 0
    BY <1>1 DEF TimerIRQ, HandlerStep, WalkWake, WalkNext, HookTail, HookReturn, Schedule, Fork,
       service, stuff
  <2> QED BY <2>1
<1>2. CASE SleepCall \/ ExitCall \/ CleanCall
  <2>1. pc[c] = "run" /\ pc'[c] = "body" /\ (SleepCall \/ call'[c] \in {"exit", "clean"})
    BY <1>0, <1>2 DEF SleepCall, ExitCall, CleanCall, MayCall, At, StuffEnter, Enter, Goto, Current
  <2> QED BY <2>1 DEF BlockLabel
<1>3. CASE Reclaim
  <2>1. pc'[c] = pc[c] /\ call'[c] = call[c] /\ pc[c] = "body"
    BY <1>0, <1>3, <1>a, ReclaimedThread DEF Reclaim, At, Current
  <2> QED BY <2>1 DEF BlockLabel
<1>4. CASE StartUp \/ SectionLeave \/ UnlockIrq
  <2>1. pc[c] \in {"start", "section", "stuff_irq"} /\ pc'[c] \in {"run", "wild"}
    BY <1>0, <1>4 DEF StartUp, SectionLeave, UnlockIrq, Return, At, Goto, Current
  <2> QED BY <2>1 DEF BlockLabel
<1>5. CASE SleepPast \/ SleepSet \/ ExitWakeClean \/ ReclaimDone
  <2>1. pc[c] = "body" /\ pc'[c] \in {"stuff_post", "blk_enter", "unb_enter"}
        /\ (pc'[c] = "stuff_post" => call[c] = "sleep")
    BY <1>0, <1>5 DEF SleepPast, SleepSet, ExitWakeClean, ReclaimDone, At, In, Goto, Current
  <2> QED BY <2>1 DEF BlockLabel
<1>6. CASE BlockLock \/ BlockState \/ BlockLink \/ BlockSchedule
  <2>1. pc'[c] \in {"blk_state", "blk_list", "blk_sched", "blk_unlock"}
    BY <1>0, <1>6 DEF BlockLock, BlockState, BlockLink, BlockSchedule, In, Goto, Current
  <2> QED BY <2>1 DEF BlockLabel
<1>7. CASE BlockUnlock
  <2>1. pc[c] = "blk_unlock" /\ pc'[c] = "stuff_post"
        /\ task_switches_postponed_flag' = task_switches_postponed_flag
    BY <1>0, <1>7 DEF BlockUnlock, At, In, Goto, stuff, Current
  <2> QED BY <2>1, <1>a DEF OwedOK
<1>8. CASE UnblockLock \/ UnblockMove \/ UnblockUnlock
  <2>1. pc[c] \in UnblockLabel
    BY <1>8 DEF UnblockLock, UnblockMove, UnblockUnlock, At, UnblockLabel, Current
  <2>2. call[c] = "exit"
    BY <1>0, <1>a, <2>1 DEF CallOK
  <2>3. pc'[c] \in {"unb", "unb_unlock", "blk_enter"}
    BY <1>0, <1>8, <2>2 DEF UnblockLock, UnblockMove, UnblockUnlock, In, Goto, Current
  <2> QED BY <2>1, <2>3 DEF UnblockLabel, BlockLabel
<1>9. CASE UnlockPostpone
  <2>1. pc[c] = "stuff_post" /\ pc'[c] = "stuff_irq"
    BY <1>0, <1>9 DEF UnlockPostpone, At, Goto, Current
  <2>2. InStuff(c) /\ postpone_task_switches_counter = 1
    BY <1>0, <1>a, <2>1 DEF InStuff, CallOK, SwitchedOK
  <2>3. task_switches_postponed_flag = 0 \/ Dispatch
    BY <1>9, <2>2 DEF UnlockPostpone
  <2>4. Dispatch => c = w
    BY <1>a, DispatchMoves
  <2> QED BY <2>1, <2>3, <2>4
<1> QED BY <1>1, <1>2, <1>3, <1>4, <1>5, <1>6, <1>7, <1>8, <1>9 DEF Services, KernelStep

\* What a step does to the threads' modes.
LEMMA ModeMoves ==
  ASSUME CpuInv, [UNext]_uvars, SleepsFirst, NEW t \in Thread
  PROVE  \/ mode'[t] = mode[t]
         \/ mode'[t] = "idle" /\ (t = Idle \/ state[t] = "NONE")
         \/ /\ t = Current /\ mode'[t] = "slept" /\ pc[t] = "body" /\ pc'[t] = "blk_enter"
            /\ call[t] = "sleep"
         \/ /\ t = Current /\ mode'[t] = "user" /\ mode[t] = "slept" /\ pc[t] = "run"
            /\ UNCHANGED <<runq, pc, call>>
<1>0. mode \in [Thread -> Mode] /\ Current \in Thread /\ state \in [Thread -> State]
  BY DEF CpuInv, CpuTypeOK, KernelTypeOK, Current
<1>1. CASE UKernelStep
  BY <1>0, <1>1 DEF UKernelStep, ULoaderSlept, At, In
<1>2. CASE GetToRing3
  BY <1>0, <1>2 DEF GetToRing3, At, kbdVars, vars, service
<1>3. CASE SysFork
  <2>1. state'[t] # state[t] => state[t] = "NONE"
    BY <1>0, <1>3 DEF SysFork, Fork
  <2> QED BY <1>3, <2>1 DEF SysFork
<1>4. CASE \/ USleep \/ UTimerIRQ \/ UHandlerStep \/ UKeyIRQ \/ SysGetChar \/ SysExit \/ SysPutChar
           \/ PrintBegin \/ PrintEnd \/ UNCHANGED uvars
  BY <1>4 DEF USleep, UTimerIRQ, UHandlerStep, UKeyIRQ, SysGetChar, SysExit, SysPutChar,
     PrintBegin, PrintEnd, uvars, Keep
<1> QED BY <1>1, <1>2, <1>3, <1>4 DEF UNext

\* What a step does to the TSS.
LEMMA TssMoves ==
  ASSUME [UNext]_uvars
  PROVE  \/ Current' = Current /\ UNCHANGED <<left_for_idle, tss_rsp0>>
         \/ Current' # Current /\ Switched(Current')
<1>1. CASE Quiet
  BY <1>1, QuietFrame DEF cpu, runq, Current
<1>2. CASE SysFork
  BY <1>2 DEF SysFork, Fork, Keep, cpu, Current
<1>3. CASE UKernelStep \/ USleep \/ UTimerIRQ \/ UHandlerStep \/ SysExit
  BY <1>3 DEF UKernelStep, USleep, UTimerIRQ, UHandlerStep, SysExit, Flag, Current
<1> QED BY <1>1, <1>2, <1>3 DEF UNext, Quiet

\* Only create_task, called by sys_fork here, gives a free TCB to a thread.
LEMMA BornIdle ==
  ASSUME CpuInv, NEW w \in Task, QueueInv(w), [UNext]_uvars,
         NEW t \in Thread, state[t] = "NONE", state'[t] # "NONE"
  PROVE  mode'[t] = "idle"
<1>a. KernelTypeOK /\ SwitchedOK /\ TerminatedOK /\ BlankOK /\ LinksOK /\ AlwaysReady(w)
  BY DEF CpuInv, QueueInv
<1>0. /\ state \in [Thread -> State] /\ t # Current /\ {"sleeping", "paused", "ready"} \subseteq ListName
      /\ \A m \in ListName : ~Linked(t, m)
  BY <1>a DEF KernelTypeOK, BlankOK, LinksOK, OnList, ListName
<1>1. ~UNCHANGED state
  OBVIOUS
<1>2. ~Dispatch
  BY <1>0, <1>1, <1>a, DispatchMoves DEF runq
<1>3. ASSUME NEW h, Unblock(h), Current' = Current
      PROVE  FALSE
  <2>1. PICK n \in {"sleeping", "paused"} : IsHead(h, n) /\ Wake(h, n)
    BY <1>1, <1>3 DEF Unblock
  <2>2. h \in Thread /\ Linked(h, n) /\ state' = [state EXCEPT ![h] = "READY"]
    BY <1>3, <1>a, <2>1, WakeMoves
  <2> QED BY <1>0, <2>2
<1>4. ~Quiet
  BY <1>1, QuietFrame DEF runq
<1>5. ~KernelStep
  <2>1. ~Reclaim
    BY <1>a, ReclaimedThread, <1>0
  <2>2. ~BlockState
    BY <1>0 DEF BlockState, Current
  <2>3. ~UnblockMove
    BY <1>3 DEF UnblockMove, Current
  <2>4. ~BlockSchedule /\ ~UnlockPostpone
    BY <1>1, <1>2 DEF BlockSchedule, UnlockPostpone, Schedule, runq
  <2> QED BY <1>1, <2>1, <2>2, <2>3, <2>4 DEF KernelStep, StartUp, SectionLeave, CleanCall,
       StuffEnter, SleepPast, SleepSet, ExitWakeClean, ReclaimDone, BlockLock, BlockLink,
       BlockUnlock, UnblockLock, UnblockUnlock, UnlockIrq, runq
<1>6. ~HandlerStep
  <2>1. ~WalkWake
    BY <1>3 DEF WalkWake, Current
  <2>2. ~HookTail
    BY <1>1, <1>2 DEF HookTail, Schedule, runq
  <2> QED BY <1>1, <2>1, <2>2 DEF HandlerStep, WalkNext, HookReturn, runq
<1>7. ~USleep /\ ~UTimerIRQ /\ ~SysExit
  BY <1>1 DEF USleep, UTimerIRQ, SysExit, SleepCall, ExitCall, StuffEnter, TimerIRQ, runq
<1>8. SysFork
  BY <1>4, <1>5, <1>6, <1>7 DEF UNext, Quiet, UKernelStep, UHandlerStep
<1> QED BY <1>8 DEF SysFork

\* A thread that calls nano_sleep_until has not slept yet.
LEMMA SleepsOnce ==
  ASSUME SchedulerAssumption, KernelTypeOK, [UNext]_uvars, SleepCall
  PROVE  mode[Current] = "kernel"
<1> USE DEF Current
<1>0. /\ pc[Current] = "run" /\ isr[Current] = "none" /\ Current # Clean /\ isr' = isr
      /\ pc'[Current] = "body" /\ call'[Current] = "sleep"
  BY SchedulerAssumption DEF KernelTypeOK, SleepCall, MayCall, At, StuffEnter, Enter, Goto, handler
<1>1. ~Quiet
  BY <1>0, QuietFrame DEF service
<1>2. ~UKernelStep
  BY <1>0 DEF UKernelStep, KernelStep, CleanCall, StartUp, SectionLeave, SleepPast, SleepSet,
     ExitWakeClean, Reclaim, ReclaimDone, BlockLock, BlockState, BlockLink, BlockSchedule,
     BlockUnlock, UnblockLock, UnblockMove, UnblockUnlock, UnlockPostpone, UnlockIrq, At
<1>3. ~UHandlerStep
  BY <1>0 DEF UHandlerStep, HandlerStep, WalkWake, WalkNext, HookTail, HookReturn, Handling
<1>4. ~UTimerIRQ
  BY <1>0 DEF UTimerIRQ, TimerIRQ, KernelTypeOK
<1>5. ~SysExit
  BY <1>0 DEF SysExit, ExitCall, StuffEnter, Enter, KernelTypeOK
<1>6. ~SysFork
  BY <1>0 DEF SysFork, Fork
<1> QED BY <1>1, <1>2, <1>3, <1>4, <1>5, <1>6 DEF UNext, Quiet, USleep

\* Whoever is switched to, its stack is in the TSS before it is in ring 3.
LEMMA StackStep ==
  ASSUME SchedulerAssumption, CpuInv, NEW w \in Task, QueueInv(w), StackOK(w), SleepsFirst,
         [UNext]_uvars
  PROVE  StackOK(w)'
<1> DEFINE c == Current
<1>a. /\ KernelTypeOK /\ CallOK /\ SwitchedOK /\ TerminatedOK /\ BlankOK
      /\ LinksOK /\ OwedOK /\ AlwaysReady(w)
  BY DEF CpuInv, QueueInv
<1>0. /\ c \in Thread /\ w \in Thread /\ w # Idle
      /\ pc \in [Thread -> Label] /\ call \in [Thread -> Call] /\ state \in [Thread -> State]
      /\ state[c] # "NONE" /\ mode[w] = "kernel"
  BY <1>a, SchedulerAssumption DEF KernelTypeOK, Current, Thread, BlankOK, StackOK
<1>1. /\ \A t \in Thread : mode[t] \in {"slept", "user"} /\ state[t] # "NONE" => pc[t] # "start"
      /\ \A t \in Thread : call[t] = "sleep" /\ pc[t] = "body" => mode[t] = "kernel"
      /\ mode[c] = "slept" /\ pc[c] = "stuff_post" => task_switches_postponed_flag # 0
      /\ mode[c] \in {"slept", "user"} =>
           tss_rsp0 = c \/ (mode[c] = "slept" /\ pc[c] \in BlockLabel \cup {"stuff_post"})
  BY <1>0 DEF StackOK
<1>2. \A t \in Thread :
        \/ mode'[t] = mode[t]
        \/ mode'[t] = "idle" /\ (t = Idle \/ state[t] = "NONE")
        \/ /\ t = c /\ mode'[t] = "slept" /\ pc[t] = "body" /\ pc'[t] = "blk_enter"
           /\ call[t] = "sleep"
        \/ /\ t = c /\ mode'[t] = "user" /\ mode[t] = "slept" /\ pc[t] = "run"
           /\ UNCHANGED <<runq, pc, call>>
  BY ModeMoves
<1>3. Services \/ (Quiet /\ UNCHANGED <<runq, stuff, pc, call>>)
  BY UserSteps, QuietFrame DEF service
<1> HIDE DEF c
<1>4. mode'[w] = "kernel"
  BY <1>0, <1>2, <1>a DEF AlwaysReady, c
<1>5. CASE Current' = c
  <2>1. left_for_idle' = left_for_idle /\ tss_rsp0' = tss_rsp0
    BY <1>5, TssMoves DEF c
  <2>2. /\ pc'[c] = "start" => pc[c] = "start"
        /\ pc'[c] = "body" /\ call'[c] = "sleep" => mode[c] = "kernel"
        /\ pc'[c] = "stuff_post" =>
             \/ task_switches_postponed_flag' # 0
             \/ pc[c] = "stuff_post" /\ task_switches_postponed_flag' = task_switches_postponed_flag
             \/ mode[c] = "kernel"
        /\ /\ mode[c] = "slept" /\ pc[c] \in BlockLabel \cup {"stuff_post"}
           => pc'[c] \in BlockLabel \cup {"stuff_post"}
    <3>1. CASE Services
      <4>1. mode[c] = "slept" => c # w
        BY <1>0
      <4>2. SleepCall => mode[c] = "kernel"
        BY <1>a, SleepsOnce DEF c
      <4> QED BY <1>0, <1>1, <1>5, <3>1, <4>1, <4>2, PlaceMoves DEF c
    <3>2. CASE UNCHANGED <<runq, stuff, pc, call>>
      BY <1>0, <1>1, <3>2 DEF stuff
    <3> QED BY <1>3, <3>1, <3>2
  <2>3. \A t \in Thread \ {c} :
          \/ state'[t] = "NONE" /\ call'[t] = "none"
          \/ pc'[t] = pc[t] /\ call'[t] = call[t]
    <3>1. CASE Reclaim
      <4>1. PICK dead \in Thread : /\ pc'  = [pc EXCEPT ![dead] = "start"]
                                   /\ call' = [call EXCEPT ![dead] = "none"]
                                   /\ state' = [state EXCEPT ![dead] = "NONE"]
        BY <1>a, <3>1, ReclaimedThread
      <4> QED BY <1>0, <4>1
    <3>2. CASE Services /\ ~Reclaim
      BY <1>a, <3>2, OthersStay DEF c
    <3> QED BY <1>3, <3>1, <3>2
  <2>4. ASSUME NEW t \in Thread, mode'[t] \in {"slept", "user"}, state'[t] # "NONE"
        PROVE  pc'[t] # "start"
    <3>1. state[t] # "NONE"
      BY <2>4, BornIdle
    <3>2. CASE t = c
      BY <1>0, <1>1, <1>2, <2>2, <2>4, <3>1, <3>2
    <3>3. CASE t # c
      <4>1. mode'[t] = mode[t] /\ pc'[t] = pc[t]
        BY <1>2, <2>3, <2>4, <3>3
      <4> QED BY <1>1, <2>4, <3>1, <4>1
    <3> QED BY <3>2, <3>3
  <2>5. ASSUME NEW t \in Thread, call'[t] = "sleep", pc'[t] = "body"
        PROVE  mode'[t] = "kernel"
    <3>1. mode[t] = "kernel"
      BY <1>1, <2>2, <2>3, <2>5
    <3>2. t # Idle /\ state[t] # "NONE"
      <4>1. CASE t = c
        <5>1. call[c] # "none" => c # Idle
          BY <1>0, <1>a, SchedulerAssumption DEF CallOK
        <5>2. Current = Idle => ~SleepCall
          BY SchedulerAssumption DEF SleepCall, MayCall
        <5>3. CASE Services
          BY <1>0, <1>5, <2>5, <4>1, <5>1, <5>2, <5>3, PlaceMoves DEF c
        <5>4. CASE UNCHANGED <<runq, stuff, pc, call>>
          BY <1>0, <2>5, <4>1, <5>1, <5>4
        <5> QED BY <1>3, <5>3, <5>4
      <4>2. CASE t # c
        BY <1>a, <2>3, <2>5, <4>2, SchedulerAssumption DEF CallOK, BlankOK
      <4> QED BY <4>1, <4>2
    <3> QED BY <1>2, <2>5, <3>1, <3>2
  <2>6. mode'[c] = "slept" /\ pc'[c] = "stuff_post" => task_switches_postponed_flag' # 0
    BY <1>0, <1>1, <1>2, <2>2
  <2>7. mode'[c] \in {"slept", "user"} =>
          tss_rsp0' = c \/ (mode'[c] = "slept" /\ pc'[c] \in BlockLabel \cup {"stuff_post"})
    BY <1>0, <1>1, <1>2, <2>1, <2>2 DEF BlockLabel
  <2> QED BY <1>4, <1>5, <2>1, <2>4, <2>5, <2>6, <2>7 DEF StackOK
<1>6. CASE Current' # c
  <2>1. Services /\ Switched(Current') /\ ~Reclaim
    BY <1>3, <1>6, TssMoves DEF c, runq, Current, Reclaim
  <2>2. Dispatch /\ \A t \in Thread : t = c => ~InStuff(t)'
    BY <1>0, <1>6, <1>a, <2>1, SwitchMoves DEF c
  <2>3. PICK d \in Thread : d # c /\ Current' = d /\ Linked(d, "ready") /\ Ready # << >>
    BY <1>6, <1>a, <2>2, DispatchMoves DEF c, runq, Current
  <2>4. state[d] # "NONE" /\ "ready" \in ListName
    BY <1>a, <2>3 DEF LinksOK, OnList, ListName
  <2>5. \A t \in Thread \ {c} : pc'[t] = pc[t] /\ call'[t] = call[t]
    BY <1>a, <2>1, OthersStay DEF c
  <2>6. pc'[c] = pc[c] \/ pc'[c] \in {"blk_unlock", "stuff_irq"}
    <3>1. BlockSchedule \/ UnlockPostpone \/ HookTail
      BY <1>6, <2>1 DEF c, Current, Services, KernelStep, StartUp, SectionLeave, SleepPast,
         SleepSet, ExitWakeClean, Reclaim, ReclaimDone, BlockLock, BlockState, BlockLink,
         BlockUnlock, UnblockLock, UnblockMove, UnblockUnlock, UnlockIrq, TimerIRQ, HandlerStep,
         WalkWake, WalkNext, HookReturn, SleepCall, ExitCall, CleanCall, Fork, StuffEnter, runq
    <3> QED BY <1>0, <3>1 DEF BlockSchedule, UnlockPostpone, HookTail, Goto, c, Current
  <2>7. left_for_idle' = [t \in Thread |-> FALSE]
    BY <1>0, <2>1, <2>3 DEF Switched, StackOK
  <2>8. ASSUME NEW t \in Thread, mode'[t] \in {"slept", "user"}, state'[t] # "NONE"
        PROVE  pc'[t] # "start"
    <3>1. state[t] # "NONE"
      BY <2>8, BornIdle
    <3> QED BY <1>0, <1>1, <1>2, <2>5, <2>6, <2>8, <3>1
  <2>9. ASSUME NEW t \in Thread, call'[t] = "sleep", pc'[t] = "body"
        PROVE  mode'[t] = "kernel"
    <3>1. t # c
      BY <2>2, <2>9 DEF InStuff, StuffCall
    <3>2. call[t] = "sleep" /\ pc[t] = "body" /\ t # Idle /\ state[t] # "NONE"
      BY <1>a, <2>5, <2>9, <3>1, SchedulerAssumption DEF CallOK, BlankOK
    <3> QED BY <1>1, <1>2, <3>1, <3>2
  <2>10. pc'[d] # "stuff_post"
    BY <1>a, <2>3, <2>5 DEF SwitchedOK, CallOK, InStuff, c
  <2>11. mode'[d] \in {"slept", "user"} => tss_rsp0' = d
    <3>1. SUFFICES ASSUME mode'[d] \in {"slept", "user"} PROVE tss_rsp0' = d
      OBVIOUS
    <3>2. pc[d] # "start"
      BY <1>1, <1>2, <2>3, <2>4, <3>1
    <3>3. ~New(d) /\ ~left_for_idle[d]
      BY <3>2 DEF New, StackOK
    <3> QED BY <2>1, <2>3, <3>3 DEF Switched
  <2> QED BY <1>4, <2>3, <2>7, <2>8, <2>9, <2>10, <2>11 DEF StackOK
<1> QED BY <1>5, <1>6

\* kernel_main leaves such a task on the ready list and the idle task running.
LEMMA StackInit ==
  ASSUME SchedulerAssumption, UserInit, NEW w \in Task, NEW i \in 1..Len(Boot), Boot[i] = w
  PROVE  QueueInv(w) /\ StackOK(w)
<1>1. /\ Init /\ Boot \in Seq(Task) /\ Idle # Clean /\ Idle \notin Task /\ Clean \notin Task
      /\ w \in Thread /\ Current = Idle /\ Idle \in Thread /\ Clean \in Thread
  BY SchedulerAssumption DEF UserInit, KbdInit, Init, Thread, Current
<1>2. lists = [n \in ListName |-> CASE n = "ready"  -> Boot
                                    [] n = "paused" -> <<Clean>>
                                    [] OTHER        -> << >>]
  BY <1>1 DEF Init
<1>3. \A t \in Thread : \A n \in ListName :
        Linked(t, n) <=> (n = "ready" /\ Occurs(t, Boot)) \/ (n = "paused" /\ t = Clean)
  BY <1>2 DEF Linked, Occurs, ListName
<1>4. Ready = Boot /\ ~Occurs(Idle, Boot) /\ ~Occurs(Clean, Boot) /\ Occurs(w, Boot)
  BY <1>1, <1>2 DEF Ready, Occurs, ListName
<1>5. /\ \A t \in Thread : Occurs(t, Boot) \/ t = Clean => state[t] = "READY"
      /\ call = [t \in Thread |-> "none"] /\ pc[Idle] = "run" /\ pc[w] = "start"
  BY <1>1 DEF Init, Occurs
<1>6. AlwaysReady(w)
  BY <1>1, <1>3, <1>4, <1>5 DEF AlwaysReady, ListName
<1>7. LinksOK
  <2>1. \A n \in ListName : NoRepeat(lists[n])
    BY <1>2, SchedulerAssumption DEF NoRepeat
  <2>2. ~OnList(Current)
    BY <1>1, <1>3, <1>4 DEF OnList
  <2>3. Ready # << >> => Head(Ready) # Current
    BY <1>1, <1>4
  <2>4. \A t \in Thread : \A m, n \in ListName : Linked(t, m) /\ Linked(t, n) => m = n
    BY <1>3, <1>4
  <2>5. \A t \in Thread : OnList(t) => state[t] \notin {"NONE", "RUNNING"}
    BY <1>3, <1>5 DEF OnList
  <2> QED BY <1>1, <1>5, <2>1, <2>2, <2>3, <2>4, <2>5 DEF LinksOK
<1>8. OwedOK
  BY <1>1, <1>5 DEF OwedOK
<1>9. StackOK(w)
  BY <1>1, <1>5 DEF StackOK, UserInit
<1> QED BY <1>6, <1>7, <1>8, <1>9 DEF QueueInv

\* Every step keeps the three invariants.
LEMMA StackNext ==
  ASSUME SleepsFirst, CpuInv, NEW w \in Task, Calls[w] \cap {"sleep", "exit"} = {},
         QueueInv(w), StackOK(w), [UNext]_uvars
  PROVE  CpuInv' /\ QueueInv(w)' /\ StackOK(w)'
<1>1. CpuInv' /\ StackOK(w)'
  BY SchedulerAssumption, UserModeAssumption, CpuNext, StackStep
<1>2. CASE Services
  BY <1>1, <1>2, SchedulerAssumption, QueueStep
<1>3. CASE Quiet
  BY <1>1, <1>3, QuietFrame DEF QueueInv, AlwaysReady, LinksOK, OwedOK, OnList, Linked, Ready,
     Current, runq, stuff, service
<1> QED BY <1>2, <1>3, UserSteps

\* task.c 201, cpu.s, kernel.c 262: for every set of tasks, a thread in ring 3
\* has its own kernel stack in the TSS, whatever threads were switched to since
\* it got there, if it slept before and kernel_main creates a task that neither
\* sleeps nor ends, as init_fs does, which loops for ever.
THEOREM OwnStack ==
  ASSUME SleepsFirst, NEW w \in Task, \E i \in 1..Len(Boot) : Boot[i] = w,
         Calls[w] \cap {"sleep", "exit"} = {}
  PROVE  USpec => []OwnKernelStack
<1>1. UserInit => CpuInv /\ QueueInv(w) /\ StackOK(w)
  BY SchedulerAssumption, CpuInit, StackInit
<1>2. CpuInv /\ QueueInv(w) /\ StackOK(w) /\ [UNext]_uvars => CpuInv' /\ QueueInv(w)' /\ StackOK(w)'
  BY StackNext
<1>3. StackOK(w) => OwnKernelStack
  BY DEF StackOK, OwnKernelStack, InUser
<1> QED BY <1>1, <1>2, <1>3, PTL DEF USpec
=============================================================================
