------------------------------ MODULE Terminal ------------------------------
(***************************************************************************)
(* What include/vga.h promises of the text screen, in lines and columns:   *)
(* a character goes where the cursor is, the end of a line leads to the    *)
(* next, the end of the last one scrolls, and a backspace goes back one    *)
(* place without erasing.  A clear brings the cursor home and blanks every *)
(* cell once, from the first; other writes may fall in between.            *)
(***************************************************************************)
EXTENDS Naturals, Sequences

CONSTANTS COLS, ROWS,   (* the size of the screen                          *)
          Glyphs,       (* what may be in a cell besides the blank         *)
          Space         (* the blank                                       *)

VARIABLES screen,       (* the lines, and the row and column of the cursor *)
          wiping        (* cells the clear under way has yet to blank      *)

tvars == <<screen, wiping>>

BlankLine == [c \in 1 .. COLS |-> Space]

NextLine(s) ==
  IF s.row < ROWS THEN [s EXCEPT !.row = @ + 1, !.col = 1]
  ELSE [lines |-> Append(Tail(s.lines), BlankLine), row |-> ROWS, col |-> 1]

Written(s, g) ==
  LET t == [s EXCEPT !.lines[s.row][s.col] = g]
  IN  IF s.col < COLS THEN [t EXCEPT !.col = @ + 1] ELSE NextLine(t)

SteppedBack(s) ==
  IF s.col > 1 THEN [s EXCEPT !.col = @ - 1]
  ELSE IF s.row > 1 THEN [s EXCEPT !.row = @ - 1, !.col = COLS] ELSE s

TInit ==
  /\ screen = [lines |-> [r \in 1 .. ROWS |-> BlankLine], row |-> 1, col |-> 1]
  /\ wiping = 0

Put ==
  /\ \E g \in Glyphs \union {Space} : screen' = Written(screen, g)
  /\ UNCHANGED wiping

Newline == screen' = NextLine(screen) /\ UNCHANGED wiping

Backspace == screen' = SteppedBack(screen) /\ UNCHANGED wiping

Home ==
  /\ wiping = 0
  /\ screen' = [screen EXCEPT !.row = 1, !.col = 1]
  /\ wiping' = COLS * ROWS

Wipe ==
  /\ wiping > 0
  /\ LET done == COLS * ROWS - wiping
     IN  screen' = [screen EXCEPT !.lines[(done \div COLS) + 1][(done % COLS) + 1] = Space]
  /\ wiping' = wiping - 1

TNext == Put \/ Newline \/ Backspace \/ Home \/ Wipe

TSpec == TInit /\ [][TNext]_tvars

=============================================================================
