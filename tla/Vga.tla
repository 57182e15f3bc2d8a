-------------------------------- MODULE Vga --------------------------------
(***************************************************************************)
(* The two halves of vga_putc in kernel/vga.c, as operators: what goes     *)
(* into the cell under the cursor, and where the cursor goes then.  The    *)
(* text memory is a function on 0 .. COLS*ROWS-1; colours are left out, no *)
(* cell is ever read back for its colour.                                  *)
(***************************************************************************)
EXTENDS Naturals

CONSTANTS
  COLS, ROWS,         \* VGA_COLS, VGA_ROWS
  Glyphs, Space,      \* characters from 33 up, and 32
  NL, BS,             \* '\n' and '\b'
  Ignored             \* below 32, or negative as a signed char: 128 and up

ASSUME VgaAssumption ==
  /\ COLS \in Nat \ {0} /\ ROWS \in Nat \ {0}
  /\ Space \notin Glyphs /\ {NL, BS, Ignored} \cap (Glyphs \union {Space}) = {}
  /\ NL # BS /\ Ignored \notin {NL, BS}

Size == COLS * ROWS
Cells == 0 .. Size - 1
Shown == Glyphs \union {Space}
Chars == Shown \union {NL, BS, Ignored}

Cleared == [k \in Cells |-> Space]

Stored(cells, cursor, c) ==
  IF c \in Shown THEN [cells EXCEPT ![cursor] = c] ELSE cells

Moved(cursor, c) ==
  CASE c \in Shown -> cursor + 1
    [] c = NL -> cursor + (COLS - (cursor % COLS))
    [] c = BS /\ cursor > 0 -> cursor - 1
    [] OTHER -> cursor

Scrolled(cells) ==
  [k \in Cells |-> IF k < (ROWS - 1) * COLS THEN cells[k + COLS] ELSE Space]

(* The rest of the critical section once the cell is written. *)
Advanced(v, c) ==
  LET to == Moved(v.cursor, c)
  IN  IF to >= Size THEN [cells |-> Scrolled(v.cells), cursor |-> (ROWS - 1) * COLS]
      ELSE [v EXCEPT !.cursor = to]

VgaPutc(v, c) == Advanced([v EXCEPT !.cells = Stored(@, v.cursor, c)], c)

=============================================================================
