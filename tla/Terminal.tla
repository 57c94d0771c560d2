------------------------------- MODULE Terminal -------------------------------
(***************************************************************************)
(* The VGA text terminal of kernel/arch/x86_64/boot/tty.c: where           *)
(* terminal_putchar puts a character and in which colours, how a line      *)
(* ends, how the screen scrolls, and where the hardware cursor goes.  The  *)
(* serial port, to which each character is copied first, is in Devices.    *)
(***************************************************************************)
EXTENDS Integers, Sequences

CONSTANTS
  Glyph,        \* characters other than the newline
  VGA_WIDTH, VGA_HEIGHT

ASSUME TerminalAssumption ==
  /\ VGA_WIDTH \in Nat \ {0} /\ VGA_HEIGHT \in Nat \ {0}
  /\ Glyph \cap {"newline", " ", "NUL"} = {}
ASSUME CursorAssumption == VGA_WIDTH * VGA_HEIGHT <= 256 * 256

Row    == 0..(VGA_HEIGHT - 1)
Column == 0..(VGA_WIDTH - 1)

VARIABLES
  terminal_row, terminal_column,
  screen,    \* terminal_buffer: the cell at row y and column x
  cursor,    \* the position of the hardware cursor, in two registers
  text       \* history: the last VGA_HEIGHT lines written, the open one last

terminal == <<terminal_row, terminal_column, screen, cursor, text>>

-----------------------------------------------------------------------------
(* vga.h: a cell holds a character and an attribute, the colour of the       *)
(* character in its lower half and that of the ground in its upper half.     *)

VGA_COLOR_BLACK      == 0
VGA_COLOR_LIGHT_GREY == 7

vga_entry_color(fg, bg) == bg * 16 + fg
vga_entry(uc, color)    == [uc |-> uc, color |-> color]

\* What the adapter shows of a cell.
Visible(cell) == /\ cell.uc \notin {" ", "NUL"}
                 /\ cell.color % 16 # cell.color \div 16

\* Nobody calls terminal_setcolor.
terminal_color == vga_entry_color(VGA_COLOR_LIGHT_GREY, VGA_COLOR_BLACK)

\* The lines that terminal_initialize and terminal_delete_last_line leave: the
\* latter clears the characters and their colours.
BlankLine == [x \in Column |-> vga_entry(" ", terminal_color)]
ZeroLine  == [x \in Column |-> vga_entry("NUL", 0)]

-----------------------------------------------------------------------------

\* terminal_initialize does not move the cursor: the loader left it at the top.
TermInit ==
  /\ terminal_row = 0 /\ terminal_column = 0
  /\ screen = [y \in Row |-> BlankLine]
  /\ cursor = [low |-> 0, high |-> 0]
  /\ text = << << >> >>

\* Mutant: the last line keeps its old text.
ScrolledKeepsLast(s) ==
  [y \in Row |-> IF y = VGA_HEIGHT - 1 THEN s[y] ELSE s[y + 1]]

\* terminal_scroll of every line but the first, terminal_delete_last_line.
Scrolled(s) ==
  [y \in Row |-> IF y = VGA_HEIGHT - 1 THEN ZeroLine ELSE s[y + 1]]

\* The lines after c: a newline or a full line opens the next one.
Written(c) ==
  LET open == IF c = "newline" THEN text[Len(text)] ELSE Append(text[Len(text)], c)
      ends == c = "newline" \/ Len(open) = VGA_WIDTH
      all  == [text EXCEPT ![Len(text)] = open] \o (IF ends THEN << << >> >> ELSE << >>)
  IN  IF Len(all) > VGA_HEIGHT THEN Tail(all) ELSE all

terminal_putentryat(c, color, x, y) == [screen EXCEPT ![y][x] = vga_entry(c, color)]

\* update_cursor writes the position into two registers of a byte each.
update_cursor(x, y) ==
  LET pos == y * VGA_WIDTH + x
  IN  cursor' = [low |-> pos % 256, high |-> (pos \div 256) % 256]

\* terminal_putchar: a newline only moves the column to the end of the line.
PutChar(c) ==
  LET put    == IF c = "newline" THEN screen
                ELSE terminal_putentryat(c, terminal_color, terminal_column, terminal_row)
      column == IF c = "newline" THEN VGA_WIDTH ELSE terminal_column + 1
      wraps  == column = VGA_WIDTH
      full   == wraps /\ terminal_row + 1 = VGA_HEIGHT
  IN  /\ terminal_column' = IF wraps THEN 0 ELSE column
      /\ terminal_row' = IF wraps /\ ~full THEN terminal_row + 1 ELSE terminal_row
      /\ screen' = IF full THEN Scrolled(put) ELSE put
      /\ update_cursor(terminal_column', terminal_row')
      /\ text' = Written(c)

-----------------------------------------------------------------------------
(* Properties.                                                              *)

TermTypeOK ==
  /\ terminal_row \in Row /\ terminal_column \in Column
  /\ screen \in [Row -> [Column -> [uc : Glyph \cup {" ", "NUL"}, color : 0..255]]]
  /\ cursor \in [low : 0..255, high : 0..255]

\* Place (y, x) of the lines t.
InText(t, y, x) == y < Len(t) /\ x < Len(t[y + 1])

\* tty.c, vga.h: the screen shows the last lines of what was written, each from
\* column 0, nothing else, and the next character goes to the end of the open
\* line, where the cursor is.
ScreenShowsText ==
  /\ terminal_row = Len(text) - 1
  /\ terminal_column = Len(text[Len(text)])
  /\ cursor.high * 256 + cursor.low = terminal_row * VGA_WIDTH + terminal_column
  /\ \A y \in Row, x \in Column :
       IF InText(text, y, x)
       THEN screen[y][x].uc = text[y + 1][x + 1] /\ Visible(screen[y][x])
       ELSE ~Visible(screen[y][x])
=============================================================================
