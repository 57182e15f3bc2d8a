--------------------------- MODULE ConsoleProofs ---------------------------
(***************************************************************************)
(* For any number of tasks that fit in the queue of the UART, and a screen *)
(* of any size: the cursor stays on it, no byte is lost in the UART, the   *)
(* hardware cursor is right again after a call that overlaps no other, and *)
(* the screen is that of a terminal.  Of the prompt on such a screen, for  *)
(* lines, words and numbers of any length: what stands there is the line,  *)
(* the line is run word for word, its numbers have their values, and a     *)
(* disk is asked only what it says.                                        *)
(***************************************************************************)
EXTENDS Console, Prompt, FiniteSetTheorems, SequenceTheorems, WellFoundedInduction, TLAPS

(* The size of the screen, row by row.                                       *)
LEMMA SizeFacts ==
  /\ COLS \in Nat /\ COLS > 0 /\ ROWS \in Nat /\ ROWS > 0
  /\ (ROWS - 1) * COLS \in Nat
  /\ Size = (ROWS - 1) * COLS + COLS
  /\ Size \in Nat /\ Size > 0
  /\ (ROWS - 1) * COLS \in Cells
  <1>1. COLS \in Nat /\ COLS > 0 /\ ROWS \in Nat /\ ROWS > 0
    BY VgaAssumption
  <1>2. PICK r \in Nat : ROWS = r + 1
    <2>1. ROWS - 1 \in Nat /\ ROWS = (ROWS - 1) + 1
      BY <1>1
    <2> QED
      BY <2>1
  <1>3. r * COLS \in Nat /\ (r + 1) * COLS = r * COLS + COLS /\ ROWS - 1 = r
    BY <1>1, <1>2
  <1> QED
    BY <1>1, <1>2, <1>3 DEF Size, Cells

(* A character never takes the cursor off the screen.                        *)
LEMMA AdvancedType ==
  ASSUME NEW v \in [cells : [Cells -> Shown], cursor : Cells], NEW c \in Chars
  PROVE  Advanced(v, c) \in [cells : [Cells -> Shown], cursor : Cells]
  <1> DEFINE to == Moved(v.cursor, c)
  <1>1. v.cursor \in Nat /\ v.cursor % COLS \in 0 .. COLS - 1
    BY SizeFacts DEF Cells
  <1>2. to \in Nat
    BY <1>1, SizeFacts DEF Moved
  <1>3. Space \in Shown /\ Scrolled(v.cells) \in [Cells -> Shown]
    <2>1. ASSUME NEW k \in Cells, k < (ROWS - 1) * COLS
          PROVE  k + COLS \in Cells
      BY <2>1, SizeFacts DEF Cells
    <2> QED
      BY <2>1 DEF Scrolled, Shown
  <1>4. CASE to >= Size
    BY <1>3, <1>4, SizeFacts DEF Advanced
  <1>5. CASE ~(to >= Size)
    <2>1. to \in Cells
      BY <1>2, <1>5, SizeFacts DEF Cells
    <2> QED
      BY <1>5, <2>1 DEF Advanced
  <1> QED
    BY <1>4, <1>5

LEMMA StoredType ==
  ASSUME NEW cells \in [Cells -> Shown], NEW k \in Cells, NEW c \in Chars
  PROVE  Stored(cells, k, c) \in [Cells -> Shown]
  BY DEF Stored

-----------------------------------------------------------------------------
(* Tasks that saw the empty queue: with what is in the UART, never more than *)
(* there are.                                                                *)
Fits == fifo + Cardinality(Sending) <= Cardinality(Task)

(* How far the port writes of a task's set_cursor have come.                 *)
Written(t) ==
  LET c == call[t]
  IN  /\ c.k = 2 => crtc.index = "low"
      /\ c.k >= 3 => crtc.low = c.n % LowBase
      /\ c.k = 4 => crtc.index = "high"

(* After a position was taken with nobody between a taking and its writing:  *)
(* the one who carries it, if any, is the only one, and has it right so far. *)
CursorFollows ==
  alone /\ (\A t \in Task : ~At(t, "wipe")) =>
    /\ \A t \in Task : Carries(t) =>
         /\ call[t].n = vga.cursor /\ Written(t)
         /\ \A u \in Task : Carries(u) => u = t
    /\ (\A t \in Task : ~Carries(t)) => Pointed = vga.cursor

IInv == TypeOK /\ Fits /\ CursorFollows

LEMMA InitHolds == Init => IInv
  <1> SUFFICES ASSUME Init PROVE IInv
    OBVIOUS
  <1>1. Space \in Shown /\ Space \in Chars /\ 0 \in Cells /\ 0 \in 0 .. Size
    BY SizeFacts DEF Shown, Chars, Cells
  <1>2. TypeOK
    BY <1>1 DEF Init, TypeOK, Cleared, Idle
  <1>3. Sending = {}
    BY DEF Init, Sending, At, Idle
  <1>4. Fits
    BY <1>3, FS_EmptySet, FS_CardinalityType, ConsoleAssumption DEF Fits, Init
  <1>5. CursorFollows
    BY ConsoleAssumption DEF Init, CursorFollows, Carries, At, Idle, Pointed
  <1> QED
    BY <1>2, <1>4, <1>5 DEF IInv

LEMMA NextType == TypeOK /\ Next => TypeOK'
  <1> SUFFICES ASSUME TypeOK, Next PROVE TypeOK'
    OBVIOUS
  <1> DEFINE C == [at : {"idle", "wait", "send", "cell", "move", "out", "wipe"},
                   then : {"idle", "cell"}, ch : Chars, n : 0 .. Size, k : 1 .. 4]
             V == [cells : [Cells -> Shown], cursor : Cells]
             R == [index : {"low", "high"}, low : Nat, high : Nat]
  <1>1. Space \in Shown /\ Space \in Chars /\ 0 \in Cells /\ 0 \in 0 .. Size /\ Idle \in C
    BY SizeFacts DEF Shown, Chars, Cells, Idle
  <1>2. \A t \in Task : call[t] \in C
    BY DEF TypeOK
  <1>3. \A t \in Task, c \in C : Goes(t, c) => call' \in [Task -> C]
    BY DEF TypeOK, Goes
  <1>4. TypeOK <=> vga \in V /\ crtc \in R /\ fifo \in Nat /\ alone \in BOOLEAN /\ call \in [Task -> C]
    BY DEF TypeOK
  <1>5. TypeOK' <=> vga' \in V /\ crtc' \in R /\ fifo' \in Nat /\ alone' \in BOOLEAN /\ call' \in [Task -> C]
    BY DEF TypeOK
  <1>6. \A k \in 0 .. Size : [Idle EXCEPT !.at = "out", !.n = k] \in C
    BY <1>1 DEF Idle
  <1>7. [Idle EXCEPT !.at = "cell"] \in C /\ [Idle EXCEPT !.at = "wipe"] \in C
    BY <1>1 DEF Idle
  <1> HIDE DEF C, V, R
  <1>10. ASSUME NEW t \in Task, SerialPutc(t) PROVE TypeOK'
    <2>1. \A next \in {"idle", "cell"} : [Idle EXCEPT !.at = "wait", !.then = next] \in C
      BY <1>1 DEF Idle, C
    <2> QED
      BY <1>3, <1>4, <1>5, <1>10, <2>1 DEF SerialPutc, ScreenElse
  <1>11. ASSUME NEW t \in Task, ConsoleWrite(t) PROVE TypeOK'
    BY <1>3, <1>4, <1>5, <1>7, <1>11 DEF ConsoleWrite, ScreenElse
  <1>12. ASSUME NEW t \in Task, ClearHome(t) PROVE TypeOK'
    <2>1. vga' \in V
      BY <1>1, <1>4, <1>12 DEF ClearHome, V
    <2> QED
      BY <1>3, <1>4, <1>5, <1>7, <1>12, <2>1 DEF ClearHome
  <1>13. ASSUME NEW t \in Task, SerialTest(t) PROVE TypeOK'
    <2>1. [call[t] EXCEPT !.at = "send"] \in C
      BY <1>2 DEF C
    <2> QED
      BY <1>2, <1>3, <1>4, <1>5, <1>13, <2>1 DEF SerialTest, ScreenElse
  <1>14. ASSUME NEW t \in Task, SerialSend(t) PROVE TypeOK'
    <2>1. [Idle EXCEPT !.at = call[t].then] \in C
      BY <1>1, <1>2 DEF C, Idle
    <2> QED
      BY <1>3, <1>4, <1>5, <1>14, <2>1 DEF SerialSend, ScreenElse
  <1>15. ASSUME NEW t \in Task, VgaStore(t) PROVE TypeOK'
    <2>1. PICK c \in Chars : /\ vga' = [vga EXCEPT !.cells = Stored(@, vga.cursor, c)]
                             /\ Goes(t, [Idle EXCEPT !.at = "move", !.ch = c])
      BY <1>15 DEF VgaStore
    <2>2. [Idle EXCEPT !.at = "move", !.ch = c] \in C
      BY <1>1 DEF Idle, C
    <2>3. Stored(vga.cells, vga.cursor, c) \in [Cells -> Shown]
      BY <1>4, StoredType DEF V
    <2>4. vga' \in V
      BY <1>4, <2>1, <2>3 DEF V
    <2> QED
      BY <1>3, <1>4, <1>5, <1>15, <2>1, <2>2, <2>4 DEF VgaStore
  <1>16. ASSUME NEW t \in Task, VgaMove(t) PROVE TypeOK'
    <2>1. vga' \in V
      BY <1>2, <1>4, <1>16, AdvancedType DEF VgaMove, V, C
    <2>2. vga'.cursor \in 0 .. Size
      BY <2>1, SizeFacts DEF V, Cells
    <2> QED
      BY <1>3, <1>4, <1>5, <1>6, <1>16, <2>1, <2>2 DEF VgaMove, Takes
  <1>17. ASSUME NEW t \in Task, SetCursor(t) PROVE TypeOK'
    <2>1. call[t].k \in 1 .. 4 /\ call[t].n \in Nat
      BY <1>2, SizeFacts DEF C
    <2>2. call[t].n % LowBase \in Nat /\ call[t].n \div LowBase \in Nat
      BY <2>1, ConsoleAssumption
    <2>3. crtc' \in R
      BY <1>4, <1>17, <2>1, <2>2 DEF SetCursor, OutB, R
    <2>4. call[t].k # 4 => [call[t] EXCEPT !.k = @ + 1] \in C
      BY <1>2, <2>1 DEF C
    <2> QED
      BY <1>1, <1>3, <1>4, <1>5, <1>17, <2>3, <2>4 DEF SetCursor
  <1>18. ASSUME NEW t \in Task, ClearCell(t) PROVE TypeOK'
    <2>1. call[t].n \in Cells /\ call[t].n + 1 \in 0 .. Size
      BY <1>2, <1>18, SizeFacts DEF C, ClearCell, Cells
    <2>2. vga' \in V
      BY <1>1, <1>4, <1>18, <2>1 DEF ClearCell, V
    <2>3. [call[t] EXCEPT !.n = @ + 1] \in C
      BY <1>2, <2>1 DEF C
    <2> QED
      BY <1>3, <1>4, <1>5, <1>18, <2>2, <2>3 DEF ClearCell
  <1>19. ASSUME NEW t \in Task, ClearCursor(t) PROVE TypeOK'
    <2>1. vga.cursor \in 0 .. Size
      BY <1>4, SizeFacts DEF V, Cells
    <2> QED
      BY <1>3, <1>4, <1>5, <1>6, <1>19, <2>1 DEF ClearCursor, Takes
  <1>20. ASSUME Drain PROVE TypeOK'
    BY <1>4, <1>5, <1>20 DEF Drain, ScreenElse
  <1> QED
    BY <1>10, <1>11, <1>12, <1>13, <1>14, <1>15, <1>16, <1>17, <1>18, <1>19, <1>20 DEF Next, GoesOn

(* A step changes the task it is of, and nobody else's place in its call.    *)
LEMMA NextFits == TypeOK /\ Fits /\ Next => Fits'
  <1> SUFFICES ASSUME TypeOK, Fits, Next PROVE Fits'
    OBVIOUS
  <1>1. IsFiniteSet(Task) /\ IsFiniteSet(Sending) /\ Sending \subseteq Task
    BY ConsoleAssumption, FS_Subset DEF Sending
  <1>2. Cardinality(Task) \in Nat /\ Cardinality(Sending) \in Nat /\ fifo \in Nat
    BY <1>1, FS_CardinalityType DEF TypeOK
  <1>3. ASSUME Sending' = Sending, fifo' \in {fifo, fifo - 1} PROVE Fits'
    BY <1>2, <1>3 DEF Fits
  <1>4. ASSUME NEW t \in Task, NEW c, Goes(t, c), c.at # "send", ~At(t, "send")
        PROVE  Sending' = Sending
    BY <1>4 DEF Sending, At, Goes, TypeOK
  <1>5. ASSUME NEW t \in Task, SerialPutc(t) PROVE Fits'
    BY <1>3, <1>4, <1>5 DEF SerialPutc, Idle, At
  <1>6. ASSUME NEW t \in Task, ConsoleWrite(t) \/ ClearHome(t) PROVE Fits'
    BY <1>3, <1>4, <1>6 DEF ConsoleWrite, ClearHome, Idle, At
  <1>7. ASSUME NEW t \in Task, SerialTest(t) PROVE Fits'
    <2>1. CASE fifo = 0
      <3>1. fifo' = 0 /\ Sending' \subseteq Task
        BY <1>7, <2>1 DEF SerialTest, Sending
      <3>2. Cardinality(Sending') \in Nat /\ Cardinality(Sending') <= Cardinality(Task)
        BY <1>1, <3>1, FS_Subset, FS_CardinalityType
      <3> QED
        BY <1>2, <3>1, <3>2 DEF Fits
    <2>2. CASE fifo # 0
      BY <1>3, <1>7, <2>2 DEF SerialTest, LsrTxEmpty, Sending, At, Goes, TypeOK
    <2> QED
      BY <2>1, <2>2
  <1>8. ASSUME NEW t \in Task, SerialSend(t) PROVE Fits'
    <2>1. call[t].then # "send" /\ t \in Sending
      BY <1>8 DEF SerialSend, TypeOK, Sending
    <2>2. Sending' = Sending \ {t}
      BY <1>8, <2>1 DEF SerialSend, Sending, At, Goes, TypeOK, Idle
    <2>3. Cardinality(Sending') = Cardinality(Sending) - 1
      BY <1>1, <2>1, <2>2, FS_RemoveElement
    <2> QED
      BY <1>2, <1>8, <2>3 DEF Fits, SerialSend
  <1>9. ASSUME NEW t \in Task, VgaStore(t) \/ VgaMove(t) PROVE Fits'
    BY <1>3, <1>4, <1>9 DEF VgaStore, VgaMove, Idle, At
  <1>10. ASSUME NEW t \in Task, SetCursor(t) \/ ClearCell(t) \/ ClearCursor(t) PROVE Fits'
    <2>1. [call[t] EXCEPT !.k = @ + 1].at = call[t].at /\ [call[t] EXCEPT !.n = @ + 1].at = call[t].at
      BY DEF TypeOK
    <2> QED
      BY <1>3, <1>4, <1>10, <2>1 DEF SetCursor, ClearCell, ClearCursor, Idle, At
  <1>11. ASSUME Drain PROVE Fits'
    BY <1>3, <1>11 DEF Drain, Sending, At
  <1> QED
    BY <1>5, <1>6, <1>7, <1>8, <1>9, <1>10, <1>11 DEF Next, GoesOn

(* Steps that neither take a position nor write one leave it as it was.      *)
LEMMA CursorKept ==
  ASSUME TypeOK, CursorFollows, UNCHANGED <<crtc, alone>>, vga'.cursor = vga.cursor,
         NEW t \in Task, NEW c, Goes(t, c), c.at # "out", ~At(t, "out"),
         At(t, "wipe") => c.at = "wipe"
  PROVE  CursorFollows'
  <1>1. \A u \in Task : u # t => call'[u] = call[u]
    BY DEF Goes, TypeOK
  <1>2. call'[t] = c
    BY DEF Goes, TypeOK
  <1>3. \A u \in Task : /\ call'[u].at = "out" <=> call[u].at = "out"
                        /\ call[u].at = "wipe" => call'[u].at = "wipe"
                        /\ call[u].at = "out" => call'[u] = call[u]
    BY <1>1, <1>2 DEF At
  <1> QED
    BY <1>3 DEF CursorFollows, Carries, At, Written, Pointed

(* A position just taken is the last one, if nobody carries another.         *)
LEMMA CursorTaken ==
  ASSUME TypeOK, NEW t \in Task, UNCHANGED crtc, Takes(t), ~Carries(t),
         Goes(t, [Idle EXCEPT !.at = "out", !.n = vga'.cursor])
  PROVE  CursorFollows'
  <1>1. \A u \in Task : u # t => call'[u] = call[u]
    BY DEF Goes, TypeOK
  <1>2. call'[t].at = "out" /\ call'[t].n = vga'.cursor /\ call'[t].k = 1
    BY DEF Goes, TypeOK, Idle
  <1>3. SUFFICES ASSUME alone'
                 PROVE  \A u \in Task : call'[u].at = "out" =>
                          /\ u = t
                          /\ call'[u].n = vga'.cursor /\ Written(u)'
    BY <1>2 DEF CursorFollows, Carries, At
  <1>4. \A u \in Task : call'[u].at = "out" => u = t
    BY <1>1, <1>3 DEF Takes, Carries, At
  <1>5. Written(t)'
    BY <1>2 DEF Written
  <1> QED
    BY <1>2, <1>4, <1>5

LEMMA NextCursor == TypeOK /\ CursorFollows /\ Next => CursorFollows'
  <1> SUFFICES ASSUME TypeOK, CursorFollows, Next PROVE CursorFollows'
    OBVIOUS
  <1>1. ASSUME NEW t \in Task, SerialPutc(t) \/ ConsoleWrite(t) PROVE CursorFollows'
    <2>1. vga'.cursor = vga.cursor /\ UNCHANGED <<crtc, alone>>
      BY <1>1 DEF SerialPutc, ConsoleWrite, ScreenElse
    <2>2. PICK c : Goes(t, c) /\ c.at # "out"
      <3>1. CASE SerialPutc(t)
        <4>1. PICK x : Goes(t, [Idle EXCEPT !.at = "wait", !.then = x])
          BY <3>1 DEF SerialPutc
        <4>2. [Idle EXCEPT !.at = "wait", !.then = x].at # "out"
          BY DEF Idle
        <4> QED
          BY <4>1, <4>2
      <3>2. CASE ConsoleWrite(t)
        <4>1. [Idle EXCEPT !.at = "cell"].at # "out"
          BY DEF Idle
        <4> QED
          BY <3>2, <4>1 DEF ConsoleWrite
      <3> QED
        BY <1>1, <3>1, <3>2
    <2>3. ~At(t, "out") /\ ~At(t, "wipe")
      BY <1>1 DEF SerialPutc, ConsoleWrite, At
    <2> QED
      BY <2>1, <2>2, <2>3, CursorKept
  <1>2. ASSUME NEW t \in Task, SerialTest(t) \/ SerialSend(t) PROVE CursorFollows'
    <2>1. vga'.cursor = vga.cursor /\ UNCHANGED <<crtc, alone>>
      BY <1>2 DEF SerialTest, SerialSend, ScreenElse
    <2>2. ~At(t, "out") /\ ~At(t, "wipe")
      BY <1>2 DEF SerialTest, SerialSend, At
    <2>3. PICK c : Goes(t, c) /\ c.at # "out"
      <3>1. [call[t] EXCEPT !.at = "send"].at = "send" /\ [Idle EXCEPT !.at = call[t].then].at # "out"
        BY DEF TypeOK, Idle
      <3> QED
        BY <1>2, <2>2, <3>1 DEF SerialTest, SerialSend, At
    <2> QED
      BY <2>1, <2>2, <2>3, CursorKept
  <1>3. ASSUME NEW t \in Task, VgaStore(t) PROVE CursorFollows'
    <2>1. vga'.cursor = vga.cursor /\ UNCHANGED <<crtc, alone>>
      BY <1>3 DEF VgaStore, TypeOK
    <2>2. PICK c : Goes(t, c) /\ c.at # "out"
      <3>1. PICK x : Goes(t, [Idle EXCEPT !.at = "move", !.ch = x])
        BY <1>3 DEF VgaStore
      <3>2. [Idle EXCEPT !.at = "move", !.ch = x].at # "out"
        BY DEF Idle
      <3> QED
        BY <3>1, <3>2
    <2>3. ~At(t, "out") /\ ~At(t, "wipe")
      BY <1>3 DEF VgaStore, At
    <2> QED
      BY <2>1, <2>2, <2>3, CursorKept
  <1>4. ASSUME NEW t \in Task, ClearHome(t) PROVE CursorFollows'
    <2>1. At(t, "wipe")'
      BY <1>4 DEF ClearHome, Goes, At, TypeOK, Idle
    <2> QED
      BY <2>1 DEF CursorFollows
  <1>5. ASSUME NEW t \in Task, ClearCell(t) PROVE CursorFollows'
    <2>1. vga'.cursor = vga.cursor /\ UNCHANGED <<crtc, alone>>
      BY <1>5 DEF ClearCell, TypeOK
    <2>2. PICK c : Goes(t, c) /\ c.at = "wipe"
      BY <1>5 DEF ClearCell, At, TypeOK
    <2>3. ~At(t, "out")
      BY <1>5 DEF ClearCell, At
    <2> QED
      BY <2>1, <2>2, <2>3, CursorKept
  <1>6. ASSUME NEW t \in Task, VgaMove(t) PROVE CursorFollows'
    <2>1. ~Carries(t)
      BY <1>6 DEF VgaMove, Carries, At
    <2> QED
      BY <1>6, <2>1, CursorTaken DEF VgaMove
  <1>7. ASSUME NEW t \in Task, ClearCursor(t) PROVE CursorFollows'
    <2>1. ~Carries(t) /\ vga' = vga
      BY <1>7 DEF ClearCursor, Carries, At
    <2> QED
      BY <1>7, <2>1, CursorTaken DEF ClearCursor
  <1>8. ASSUME NEW t \in Task, SetCursor(t) PROVE CursorFollows'
    <2>1. SUFFICES ASSUME alone', \A u \in Task : ~At(u, "wipe")'
                   PROVE  /\ \A u \in Task : Carries(u)' =>
                               /\ call'[u].n = vga'.cursor /\ Written(u)'
                               /\ \A w \in Task : Carries(w)' => w = u
                          /\ (\A u \in Task : ~Carries(u)') => Pointed' = vga'.cursor
      BY DEF CursorFollows
    <2>2. \A u \in Task : u # t => call'[u] = call[u]
      BY <1>8 DEF SetCursor, Goes, TypeOK
    <2>3. alone /\ (\A u \in Task : ~At(u, "wipe")) /\ Carries(t) /\ UNCHANGED vga
      BY <1>8, <2>1, <2>2 DEF SetCursor, Carries, At
    <2>4. call[t].n = vga.cursor /\ Written(t) /\ \A u \in Task : u # t => ~Carries(u)
      BY <2>3 DEF CursorFollows
    <2>5. \A u \in Task : Carries(u)' => u = t
      BY <2>2, <2>4 DEF Carries, At
    <2>6. call[t].k \in 1 .. 4 /\ call[t].n \in Nat /\ crtc \in [index : {"low", "high"}, low : Nat, high : Nat]
      BY SizeFacts DEF TypeOK
    <2>7. CASE call[t].k # 4
      <3>1. call'[t] = [call[t] EXCEPT !.k = @ + 1]
        BY <1>8, <2>7 DEF SetCursor, Goes, TypeOK
      <3>2. call'[t].n = call[t].n /\ call'[t].k = call[t].k + 1 /\ call'[t].at = "out"
        BY <2>3, <3>1 DEF TypeOK, Carries, At
      <3>3. Written(t)'
        BY <1>8, <2>4, <2>6, <2>7, <3>2 DEF Written, SetCursor, OutB
      <3> QED
        BY <2>3, <2>4, <2>5, <3>2, <3>3 DEF Carries, At
    <2>8. CASE call[t].k = 4
      <3>1. call'[t].at = "idle"
        BY <1>8, <2>8 DEF SetCursor, Goes, TypeOK, Idle
      <3>2. crtc'.low = call[t].n % LowBase /\ crtc'.high = call[t].n \div LowBase
        BY <1>8, <2>4, <2>6, <2>8 DEF Written, SetCursor, OutB
      <3>3. (call[t].n \div LowBase) * LowBase + (call[t].n % LowBase) = call[t].n
        <4>1. \A n \in Nat, d \in Nat \ {0} : (n \div d) * d + (n % d) = n
          OBVIOUS
        <4> QED
          BY <2>6, <4>1, ConsoleAssumption
      <3>4. Pointed' = vga'.cursor
        BY <2>3, <2>4, <3>2, <3>3 DEF Pointed
      <3> QED
        BY <2>5, <3>1, <3>4 DEF Carries, At
    <2> QED
      BY <2>7, <2>8
  <1>9. ASSUME Drain PROVE CursorFollows'
    BY <1>9 DEF Drain, ScreenElse, CursorFollows, Carries, At, Written, Pointed
  <1> QED
    BY <1>1, <1>2, <1>3, <1>4, <1>5, <1>6, <1>7, <1>8, <1>9 DEF Next, GoesOn

LEMMA StutterHolds == IInv /\ UNCHANGED vars => IInv'
  BY DEF IInv, TypeOK, Fits, Sending, CursorFollows, Carries, At, Written, Pointed, vars

-----------------------------------------------------------------------------
(* Wherever the tasks are preempted, the cursor and every position that one  *)
(* of them carries stay on the screen, and the cells keep their type         *)
(* (vga_putc, vga_clear).                                                    *)
THEOREM ConsoleInvariant == Spec => []IInv
  <1>1. Init => IInv
    BY InitHolds
  <1>2. IInv /\ [Next]_vars => IInv'
    BY NextType, NextFits, NextCursor, StutterHolds DEF IInv
  <1> QED
    BY <1>1, <1>2, PTL DEF Spec

(* With no more tasks than the UART has places, no byte given to it is lost, *)
(* though the test and the write of serial_putc are two steps.               *)
THEOREM ConsoleNoOverrun == Spec => []NoOverrun
  <1>1. IInv => NoOverrun
    <2> SUFFICES ASSUME IInv PROVE NoOverrun
      OBVIOUS
    <2>1. IsFiniteSet(Sending) /\ Cardinality(Sending) \in Nat /\ Cardinality(Task) \in Nat
      BY ConsoleAssumption, FS_Subset, FS_CardinalityType DEF Sending
    <2> QED
      BY <2>1, ConsoleAssumption DEF IInv, TypeOK, Fits, NoOverrun
  <1> QED
    BY <1>1, ConsoleInvariant, PTL

(* After a position that was taken and written with nobody in between, the   *)
(* hardware cursor is where the text is, whatever went wrong before          *)
(* (set_cursor outside the critical section of vga_putc).                    *)
THEOREM ConsoleCursorCatchesUp == Spec => []CursorCatchesUp
  <1>1. IInv => CursorCatchesUp
    BY DEF IInv, CursorFollows, CursorCatchesUp
  <1> QED
    BY <1>1, ConsoleInvariant, PTL

-----------------------------------------------------------------------------
(* The screen of Terminal has lines and columns, the text memory places:     *)
(* column c of line r is cell (r - 1) * COLS + c - 1.                        *)
Screens == [cells : [Cells -> Shown], cursor : Cells]
Place(r, c) == (r - 1) * COLS + c - 1

LEMMA ProductGrows ==
  ASSUME NEW a \in Nat, NEW b \in Nat, NEW d \in Nat, a <= b
  PROVE  a * d \in Nat /\ b * d \in Nat /\ a * d <= b * d
  <1>1. PICK e \in Nat : b = a + e
    <2>1. b - a \in Nat /\ b = a + (b - a)
      OBVIOUS
    <2> QED
      BY <2>1
  <1>2. (a + e) * d = a * d + e * d /\ e * d \in Nat /\ a * d \in Nat
    OBVIOUS
  <1> QED
    BY <1>1, <1>2

LEMMA DivMod ==
  ASSUME NEW k \in Nat
  PROVE  /\ k \div COLS \in Nat /\ k % COLS \in 0 .. COLS - 1
         /\ k = (k \div COLS) * COLS + (k % COLS)
  <1>1. \A n \in Nat, d \in Nat \ {0} : (n \div d) * d + (n % d) = n
    OBVIOUS
  <1>2. \A n \in Nat, d \in Nat \ {0} : n \div d \in Nat /\ n % d \in 0 .. d - 1
    OBVIOUS
  <1>3. COLS \in Nat \ {0}
    BY SizeFacts
  <1>4. (k \div COLS) * COLS + (k % COLS) = k
    BY <1>1, <1>3, Zenon
  <1>5. k \div COLS \in Nat /\ k % COLS \in 0 .. COLS - 1
    BY <1>2, <1>3, Zenon
  <1> QED
    BY <1>4, <1>5

(* There is one way to write a place as a line and a column.                 *)
LEMMA DivModIs ==
  ASSUME NEW q \in Nat, NEW m \in 0 .. COLS - 1
  PROVE  (q * COLS + m) \div COLS = q /\ (q * COLS + m) % COLS = m
  <1> DEFINE k == q * COLS + m
             p == k \div COLS
             n == k % COLS
  <1>1. k \in Nat /\ q * COLS \in Nat /\ COLS \in Nat /\ COLS > 0
    BY SizeFacts
  <1>2. p \in Nat /\ n \in 0 .. COLS - 1 /\ k = p * COLS + n
    BY <1>1, DivMod
  <1>3. k = q * COLS + m
    OBVIOUS
  <1> HIDE DEF k, p, n
  <1>4. ASSUME p < q PROVE FALSE
    <2>1. (p + 1) * COLS <= q * COLS
      BY <1>1, <1>2, <1>4, ProductGrows
    <2>2. (p + 1) * COLS = p * COLS + COLS /\ p * COLS \in Nat
      BY <1>1, <1>2
    <2> QED
      BY <1>1, <1>2, <1>3, <2>1, <2>2
  <1>5. ASSUME q < p PROVE FALSE
    <2>1. (q + 1) * COLS <= p * COLS
      BY <1>1, <1>2, <1>5, ProductGrows
    <2>2. (q + 1) * COLS = q * COLS + COLS /\ p * COLS \in Nat
      BY <1>1, <1>2
    <2> QED
      BY <1>1, <1>2, <1>3, <2>1, <2>2
  <1>6. p = q
    BY <1>2, <1>4, <1>5
  <1>7. n = m
    BY <1>1, <1>2, <1>3, <1>6
  <1> QED
    BY <1>6, <1>7 DEF p, n, k

(* Places and cells are the same.                                            *)
LEMMA PlaceIs ==
  ASSUME NEW r \in 1 .. ROWS, NEW c \in 1 .. COLS
  PROVE  /\ Place(r, c) \in Cells
         /\ Place(r, c) \div COLS = r - 1 /\ Place(r, c) % COLS = c - 1
  <1>1. r - 1 \in Nat /\ r - 1 <= ROWS - 1 /\ c - 1 \in 0 .. COLS - 1 /\ ROWS - 1 \in Nat
    BY SizeFacts
  <1>2. (r - 1) * COLS \in Nat /\ (r - 1) * COLS <= (ROWS - 1) * COLS
    BY <1>1, SizeFacts, ProductGrows
  <1>3. Place(r, c) = (r - 1) * COLS + (c - 1)
    BY <1>1, <1>2 DEF Place
  <1>4. Place(r, c) \in Cells
    BY <1>1, <1>2, <1>3, SizeFacts DEF Cells
  <1> QED
    BY <1>1, <1>3, <1>4, DivModIs

LEMMA CellIs ==
  ASSUME NEW k \in Cells
  PROVE  /\ k \in Nat /\ k \div COLS + 1 \in 1 .. ROWS /\ (k % COLS) + 1 \in 1 .. COLS
         /\ k = Place(k \div COLS + 1, (k % COLS) + 1)
  <1>1. k \in Nat /\ k < Size
    BY SizeFacts DEF Cells
  <1>2. k \div COLS \in Nat /\ k % COLS \in 0 .. COLS - 1 /\ k = (k \div COLS) * COLS + (k % COLS)
    BY <1>1, DivMod
  <1>3. k \div COLS < ROWS
    <2>1. SUFFICES ASSUME ROWS <= k \div COLS PROVE FALSE
      BY <1>2, SizeFacts
    <2>2. ROWS * COLS <= (k \div COLS) * COLS /\ (k \div COLS) * COLS \in Nat
      BY <1>2, <2>1, SizeFacts, ProductGrows
    <2>3. Size = ROWS * COLS
      BY SizeFacts DEF Size
    <2> QED
      BY <1>1, <1>2, <2>2, <2>3, SizeFacts
  <1>4. k = ((k \div COLS + 1) - 1) * COLS + ((k % COLS) + 1) - 1
    <2>1. PICK p \in Nat, m \in 0 .. COLS - 1 :
            p = k \div COLS /\ m = k % COLS /\ k = p * COLS + m
      BY <1>2, Zenon
    <2>2. p * COLS \in Nat /\ (p + 1) - 1 = p
      BY <1>2, <2>1, SizeFacts
    <2>3. k = ((p + 1) - 1) * COLS + (m + 1) - 1
      BY <2>1, <2>2, SizeFacts
    <2> QED
      BY <2>1, <2>3
  <1> QED
    BY <1>1, <1>2, <1>3, <1>4, SizeFacts DEF Place

(* What Seen makes of the text memory and of the cursor.                     *)
LinesOf(cells) == [r \in 1 .. ROWS |-> [c \in 1 .. COLS |-> cells[Place(r, c)]]]

LEMMA SeenIs ==
  ASSUME NEW v
  PROVE  Seen(v) = [lines |-> LinesOf(v.cells), row |-> v.cursor \div COLS + 1,
                    col |-> (v.cursor % COLS) + 1]
  BY DEF Seen, LinesOf, Place

LEMMA LinesType ==
  ASSUME NEW cells \in [Cells -> Shown]
  PROVE  LinesOf(cells) \in [1 .. ROWS -> [1 .. COLS -> Shown]]
  BY PlaceIs DEF LinesOf

(* g at column q of line p, in the lines and on a screen.                    *)
LinesWith(lines, p, q, g) == [lines EXCEPT ![p][q] = g]
ScreenWith(s, p, q, g) == [s EXCEPT !.lines[p][q] = g]

LEMMA ScreenWithIs ==
  ASSUME NEW s, NEW lines, NEW row, NEW col, NEW p, NEW q, NEW g,
         s = [lines |-> lines, row |-> row, col |-> col]
  PROVE  ScreenWith(s, p, q, g) = [lines |-> LinesWith(lines, p, q, g), row |-> row, col |-> col]
  BY DEF ScreenWith, LinesWith

(* A cell is one place of one line.                                          *)
LEMMA CellSeen ==
  ASSUME NEW cells \in [Cells -> Shown], NEW k \in Cells, NEW g \in Shown
  PROVE  LinesOf([cells EXCEPT ![k] = g])
           = LinesWith(LinesOf(cells), k \div COLS + 1, (k % COLS) + 1, g)
  <1>1. PICK row \in 1 .. ROWS, col \in 1 .. COLS :
          row = k \div COLS + 1 /\ col = (k % COLS) + 1 /\ k = Place(row, col)
    BY CellIs
  <1>2. ASSUME NEW r \in 1 .. ROWS, NEW c \in 1 .. COLS
        PROVE  [cells EXCEPT ![k] = g][Place(r, c)]
                 = IF r = row /\ c = col THEN g ELSE cells[Place(r, c)]
    <2>1. Place(r, c) = k <=> r = row /\ c = col
      <3>1. Place(r, c) \div COLS = r - 1 /\ Place(r, c) % COLS = c - 1
        BY PlaceIs
      <3>2. Place(row, col) \div COLS = row - 1 /\ Place(row, col) % COLS = col - 1
        BY PlaceIs
      <3>3. CASE Place(r, c) = k
        <4>1. r - 1 = row - 1 /\ c - 1 = col - 1
          BY <1>1, <3>1, <3>2, <3>3
        <4> QED
          BY <3>3, <4>1
      <3>4. CASE Place(r, c) # k
        BY <1>1, <3>4
      <3> QED
        BY <3>3, <3>4
    <2>2. Place(r, c) \in Cells
      BY PlaceIs
    <2> QED
      BY <2>1, <2>2
  <1> DEFINE L == LinesOf(cells)
  <1>3. L \in [1 .. ROWS -> [1 .. COLS -> Shown]]
    BY LinesType
  <1>4. \A r \in 1 .. ROWS, c \in 1 .. COLS : L[r][c] = cells[Place(r, c)]
    BY DEF LinesOf
  <1> HIDE DEF L
  <1>5. ASSUME NEW r \in 1 .. ROWS
        PROVE  [c \in 1 .. COLS |-> [cells EXCEPT ![k] = g][Place(r, c)]]
                 = [L EXCEPT ![row][col] = g][r]
    <2>1. CASE r = row
      <3>1. [L EXCEPT ![row][col] = g][r] = [L[row] EXCEPT ![col] = g]
        BY <1>3, <2>1
      <3>2. ASSUME NEW c \in 1 .. COLS
            PROVE  [L[row] EXCEPT ![col] = g][c] = [cells EXCEPT ![k] = g][Place(r, c)]
        <4>1. [L[row] EXCEPT ![col] = g][c] = IF c = col THEN g ELSE L[row][c]
          BY <1>3
        <4> QED
          BY <1>2, <1>4, <2>1, <4>1
      <3>3. [L[row] EXCEPT ![col] = g] = [c \in 1 .. COLS |-> [L[row] EXCEPT ![col] = g][c]]
        BY <1>3
      <3> QED
        BY <3>1, <3>2, <3>3
    <2>2. CASE r # row
      <3>1. [L EXCEPT ![row][col] = g][r] = L[r]
        BY <1>3, <2>2
      <3>2. \A c \in 1 .. COLS : L[r][c] = [cells EXCEPT ![k] = g][Place(r, c)]
        BY <1>2, <1>4, <2>2
      <3>3. L[r] = [c \in 1 .. COLS |-> L[r][c]]
        BY <1>3
      <3> QED
        BY <3>1, <3>2, <3>3
    <2> QED
      BY <2>1, <2>2
  <1>6. [L EXCEPT ![row][col] = g] = [r \in 1 .. ROWS |-> [L EXCEPT ![row][col] = g][r]]
    BY <1>3
  <1>7. LinesOf([cells EXCEPT ![k] = g]) = [L EXCEPT ![row][col] = g]
    BY <1>5, <1>6, Zenon DEF LinesOf
  <1> QED
    BY <1>1, <1>7, Zenon DEF L, LinesWith

(* Scrolling: the first line goes, a blank one comes.                        *)
LEMMA ScrolledSeen ==
  ASSUME NEW cells \in [Cells -> Shown]
  PROVE  LinesOf(Scrolled(cells)) = Append(Tail(LinesOf(cells)), T!BlankLine)
  <1> DEFINE S == [1 .. COLS -> Shown]
             L == LinesOf(cells)
             N == LinesOf(Scrolled(cells))
             M == Append(Tail(L), T!BlankLine)
  <1>1. Space \in Shown /\ Scrolled(cells) \in [Cells -> Shown]
    <2>1. ASSUME NEW k \in Cells, k < (ROWS - 1) * COLS
          PROVE  k + COLS \in Cells
      BY <2>1, SizeFacts DEF Cells
    <2> QED
      BY <2>1 DEF Scrolled, Shown
  <1>2. L \in [1 .. ROWS -> S] /\ N \in [1 .. ROWS -> S] /\ T!BlankLine \in S
    BY <1>1, LinesType DEF T!BlankLine
  <1>3. \A r \in 1 .. ROWS, c \in 1 .. COLS :
          N[r][c] = Scrolled(cells)[Place(r, c)] /\ L[r][c] = cells[Place(r, c)]
    BY DEF LinesOf
  <1>4. \A c \in 1 .. COLS : T!BlankLine[c] = Space
    BY DEF T!BlankLine
  <1> HIDE DEF S, L, N, M
  <1>5. L \in Seq(S) /\ N \in Seq(S) /\ Len(L) = ROWS /\ Len(N) = ROWS
    BY <1>2, SizeFacts
  <1>6. /\ Tail(L) \in Seq(S) /\ Len(Tail(L)) = ROWS - 1
        /\ \A r \in 1 .. ROWS - 1 : Tail(L)[r] = L[r + 1]
    BY <1>5, SizeFacts, HeadTailProperties
  <1>7. /\ M \in Seq(S) /\ Len(M) = ROWS
        /\ \A r \in 1 .. ROWS - 1 : M[r] = L[r + 1]
        /\ M[ROWS] = T!BlankLine
    <2>1. /\ M \in Seq(S) /\ Len(M) = Len(Tail(L)) + 1
          /\ \A r \in 1 .. Len(Tail(L)) : M[r] = Tail(L)[r]
          /\ M[Len(Tail(L)) + 1] = T!BlankLine
      BY <1>2, <1>6, AppendProperties DEF M
    <2> QED
      BY <1>6, <2>1, SizeFacts
  <1>8. ASSUME NEW r \in 1 .. ROWS
        PROVE  N[r] = M[r]
    <2>1. N[r] \in S /\ M[r] \in S
      BY <1>2, <1>5, <1>7
    <2>2. ASSUME NEW c \in 1 .. COLS
          PROVE  N[r][c] = M[r][c]
      <3>1. Place(r, c) \in Cells /\ r - 1 \in Nat /\ (r - 1) * COLS \in Nat
        BY PlaceIs, SizeFacts
      <3>2. Scrolled(cells)[Place(r, c)]
              = IF Place(r, c) < (ROWS - 1) * COLS THEN cells[Place(r, c) + COLS] ELSE Space
        BY <3>1 DEF Scrolled
      <3>3. CASE r < ROWS
        <4>1. r <= ROWS - 1 /\ r \in Nat /\ ROWS - 1 \in Nat
          BY <3>3, SizeFacts
        <4>2. r * COLS <= (ROWS - 1) * COLS /\ r * COLS \in Nat
          BY <4>1, SizeFacts, ProductGrows
        <4>3. r * COLS = (r - 1) * COLS + COLS
          <5>1. \A q \in Nat, d \in Nat : (q + 1) * d = q * d + d
            OBVIOUS
          <5>2. r = (r - 1) + 1
            OBVIOUS
          <5> QED
            BY <3>1, <5>1, <5>2, SizeFacts
        <4>4. Place(r, c) < (ROWS - 1) * COLS
          BY <3>1, <4>2, <4>3, SizeFacts DEF Place
        <4>5. Place(r + 1, c) = Place(r, c) + COLS
          BY <3>1, <4>2, <4>3, SizeFacts DEF Place
        <4>6. N[r][c] = cells[Place(r + 1, c)]
          BY <1>3, <3>2, <4>4, <4>5
        <4>7. M[r][c] = cells[Place(r + 1, c)]
          BY <1>3, <1>7, <4>1
        <4> QED
          BY <4>6, <4>7
      <3>4. CASE r = ROWS
        <4>1. ~(Place(r, c) < (ROWS - 1) * COLS)
          BY <3>1, <3>4, SizeFacts DEF Place
        <4> QED
          BY <1>3, <1>4, <1>7, <3>2, <3>4, <4>1
      <3>5. r < ROWS \/ r = ROWS
        <4>1. ROWS \in Nat
          BY SizeFacts
        <4> QED
          BY <4>1
      <3> QED
        BY <3>3, <3>4, <3>5
    <2>3. /\ N[r] = [c \in 1 .. COLS |-> N[r][c]]
          /\ M[r] = [c \in 1 .. COLS |-> M[r][c]]
      BY <2>1, Zenon DEF S
    <2> QED
      BY <2>2, <2>3, Zenon
  <1>9. N = M
    BY <1>5, <1>7, <1>8, SeqEqual
  <1> QED
    BY <1>9 DEF N, M, L

(* The end of a line, reached by writing its last cell or by a newline.      *)
LEMMA NextLineSeen ==
  ASSUME NEW v \in Screens, NEW to, to = (v.cursor \div COLS + 1) * COLS
  PROVE  /\ to >= Size =>
              Seen([cells |-> Scrolled(v.cells), cursor |-> (ROWS - 1) * COLS]) = T!NextLine(Seen(v))
         /\ ~(to >= Size) => Seen([v EXCEPT !.cursor = to]) = T!NextLine(Seen(v))
  <1> DEFINE d == v.cursor \div COLS
             s == Seen(v)
  <1>1. v.cells \in [Cells -> Shown] /\ v.cursor \in Cells
    BY DEF Screens
  <1>2. d \in Nat /\ d + 1 \in 1 .. ROWS
    BY <1>1, CellIs, DivMod
  <1>3. /\ s = [lines |-> LinesOf(v.cells), row |-> d + 1, col |-> (v.cursor % COLS) + 1]
        /\ to = (d + 1) * COLS
    BY SeenIs
  <1> HIDE DEF d, s
  <1>4. 0 \in 0 .. COLS - 1
    BY SizeFacts
  <1>5. CASE d + 1 < ROWS
    <2>1. d + 1 <= ROWS - 1 /\ d + 1 \in Nat /\ ROWS - 1 \in Nat
      BY <1>2, <1>5, SizeFacts
    <2>2. to <= (ROWS - 1) * COLS /\ to \in Nat
      BY <1>3, <2>1, SizeFacts, ProductGrows
    <2>3. ~(to >= Size)
      BY <2>2, SizeFacts
    <2>4. to \div COLS = d + 1 /\ to % COLS = 0
      <3>1. to = (d + 1) * COLS + 0
        BY <1>3, <2>2
      <3> QED
        BY <1>4, <2>1, <3>1, DivModIs
    <2>5. Seen([v EXCEPT !.cursor = to]) = [lines |-> LinesOf(v.cells), row |-> d + 1 + 1, col |-> 0 + 1]
      <3>1. [v EXCEPT !.cursor = to].cells = v.cells /\ [v EXCEPT !.cursor = to].cursor = to
        BY DEF Screens
      <3> QED
        BY <2>4, <3>1, SeenIs
    <2>6. T!NextLine(s) = [lines |-> LinesOf(v.cells), row |-> d + 1 + 1, col |-> 1]
      BY <1>3, <1>5 DEF T!NextLine
    <2> QED
      BY <2>3, <2>5, <2>6 DEF s
  <1>6. CASE d + 1 = ROWS
    <2>1. to = Size
      BY <1>3, <1>6, SizeFacts DEF Size
    <2>2. ((ROWS - 1) * COLS) \div COLS = ROWS - 1 /\ ((ROWS - 1) * COLS) % COLS = 0
      <3>1. (ROWS - 1) * COLS = (ROWS - 1) * COLS + 0 /\ ROWS - 1 \in Nat
        BY SizeFacts
      <3> QED
        BY <1>4, <3>1, DivModIs
    <2>3. Seen([cells |-> Scrolled(v.cells), cursor |-> (ROWS - 1) * COLS])
            = [lines |-> LinesOf(Scrolled(v.cells)), row |-> ROWS, col |-> 1]
      <3>1. (ROWS - 1) + 1 = ROWS
        BY SizeFacts
      <3> QED
        BY <2>2, <3>1, SeenIs
    <2>4. T!NextLine(s) = [lines |-> Append(Tail(LinesOf(v.cells)), T!BlankLine), row |-> ROWS, col |-> 1]
      BY <1>3, <1>6, SizeFacts DEF T!NextLine
    <2>5. to >= Size
      BY <2>1, SizeFacts
    <2>6. LinesOf(Scrolled(v.cells)) = Append(Tail(LinesOf(v.cells)), T!BlankLine)
      BY <1>1, ScrolledSeen
    <2>7. Seen([cells |-> Scrolled(v.cells), cursor |-> (ROWS - 1) * COLS]) = T!NextLine(s)
      BY <2>3, <2>4, <2>6, Zenon
    <2> QED
      BY <2>5, <2>7, Zenon DEF s
  <1> QED
    BY <1>2, <1>5, <1>6, SizeFacts

(* A character that shows goes where the cursor is, and the cursor on.       *)
LEMMA PutSeen ==
  ASSUME NEW v \in Screens, NEW c \in Shown
  PROVE  Seen(VgaPutc(v, c)) = T!Written(Seen(v), c)
  <1> DEFINE k == v.cursor
             w == [v EXCEPT !.cells = [v.cells EXCEPT ![k] = c]]
             s == Seen(v)
             t == ScreenWith(s, s.row, s.col, c)
  <1>1. v.cells \in [Cells -> Shown] /\ k \in Cells /\ k \in Nat
    BY CellIs DEF Screens
  <1>2. w \in Screens /\ w.cells = [v.cells EXCEPT ![k] = c] /\ w.cursor = k
    BY <1>1 DEF Screens
  <1>3. s = [lines |-> LinesOf(v.cells), row |-> k \div COLS + 1, col |-> (k % COLS) + 1]
    BY SeenIs
  <1>4. T!Written(s, c) = IF s.col < COLS THEN [t EXCEPT !.col = @ + 1] ELSE T!NextLine(t)
    BY DEF T!Written, ScreenWith
  <1>5. VgaPutc(v, c) = IF k + 1 >= Size THEN [cells |-> Scrolled(w.cells), cursor |-> (ROWS - 1) * COLS]
                        ELSE [w EXCEPT !.cursor = k + 1]
    <2>1. VgaPutc(v, c) = Advanced(w, c)
      BY Zenon DEF VgaPutc, Stored
    <2>2. Moved(w.cursor, c) = k + 1
      <3>1. c # NL /\ c # BS /\ w.cursor = k
        BY <1>2, VgaAssumption DEF Shown
      <3> QED
        BY <3>1 DEF Moved
    <2> HIDE DEF k, w
    <2> QED
      BY <2>1, <2>2 DEF Advanced
  <1> HIDE DEF w
  <1>6. Seen(w) = [lines |-> LinesOf(w.cells), row |-> k \div COLS + 1, col |-> (k % COLS) + 1]
    BY <1>2, SeenIs
  <1>7. t = Seen(w)
    <2>1. LinesOf(w.cells) = LinesWith(LinesOf(v.cells), k \div COLS + 1, (k % COLS) + 1, c)
      BY <1>1, <1>2, CellSeen
    <2>2. s.row = k \div COLS + 1 /\ s.col = (k % COLS) + 1
      BY <1>3
    <2> HIDE DEF s, k
    <2>3. t = [lines |-> LinesWith(LinesOf(v.cells), s.row, s.col, c),
               row |-> k \div COLS + 1, col |-> (k % COLS) + 1]
      <3>1. PICK x, p, q, lines, row, col : x = s /\ p = s.row /\ q = s.col
              /\ lines = LinesOf(v.cells) /\ row = k \div COLS + 1 /\ col = (k % COLS) + 1
        OBVIOUS
      <3>2. x = [lines |-> lines, row |-> row, col |-> col]
        BY <1>3, <3>1
      <3>3. ScreenWith(x, p, q, c) = [lines |-> LinesWith(lines, p, q, c), row |-> row, col |-> col]
        BY <3>2, ScreenWithIs
      <3> QED
        BY <3>1, <3>3
    <2> QED
      BY <1>6, <2>1, <2>2, <2>3
  <1>8. k \div COLS \in Nat /\ k % COLS \in 0 .. COLS - 1 /\ k = (k \div COLS) * COLS + (k % COLS)
    BY <1>1, DivMod
  <1> HIDE DEF s, t, k
  <1>11. COLS \in Nat /\ COLS > 0
    BY SizeFacts
  <1>9. CASE (k % COLS) + 1 < COLS
    <2>1. PICK d \in Nat, m \in 0 .. COLS - 1 : d = k \div COLS /\ m = k % COLS /\ k = d * COLS + m
      BY <1>8
    <2>2. m + 1 \in 0 .. COLS - 1 /\ k + 1 = d * COLS + (m + 1)
      <3>1. d * COLS \in Nat
        BY <1>11, <2>1
      <3> QED
        BY <1>9, <1>11, <2>1, <3>1
    <2>3. (k + 1) \div COLS = d /\ (k + 1) % COLS = m + 1
      BY <2>2, DivModIs
    <2>4. d + 1 \in 1 .. ROWS
      BY <1>1, <2>1, CellIs
    <2>5. d <= ROWS - 1 /\ ROWS - 1 \in Nat
      BY <2>4, SizeFacts
    <2>6. d * COLS <= (ROWS - 1) * COLS /\ d * COLS \in Nat
      BY <2>5, SizeFacts, ProductGrows
    <2>7. ~(k + 1 >= Size)
      BY <2>2, <2>6, SizeFacts
    <2>8. Seen([w EXCEPT !.cursor = k + 1]) = [lines |-> LinesOf(w.cells), row |-> d + 1, col |-> m + 1 + 1]
      <3>1. [w EXCEPT !.cursor = k + 1].cells = w.cells /\ [w EXCEPT !.cursor = k + 1].cursor = k + 1
        BY <1>2 DEF Screens
      <3> QED
        BY <2>3, <3>1, SeenIs
    <2>9. s.col < COLS
      BY <1>3, <1>9
    <2>10. [t EXCEPT !.col = @ + 1] = [lines |-> LinesOf(w.cells), row |-> d + 1, col |-> m + 1 + 1]
      BY <1>3, <1>6, <1>7, <1>9, <2>1
    <2> QED
      BY <1>4, <1>5, <2>7, <2>8, <2>9, <2>10 DEF s
  <1>10. CASE ~((k % COLS) + 1 < COLS)
    <2>1. PICK d \in Nat, m \in 0 .. COLS - 1 : d = k \div COLS /\ m = k % COLS /\ k = d * COLS + m
      BY <1>8
    <2>2. m = COLS - 1 /\ d * COLS \in Nat
      BY <1>10, <1>11, <2>1
    <2>3. k + 1 = (d + 1) * COLS
      <3>1. (d + 1) * COLS = d * COLS + COLS
        BY <1>11, <2>1
      <3> QED
        BY <1>11, <2>1, <2>2, <3>1
    <2>4. k + 1 = (w.cursor \div COLS + 1) * COLS
      BY <1>2, <2>1, <2>3 DEF k
    <2>5. ~(s.col < COLS)
      BY <1>3, <1>10
    <2>6. Seen(VgaPutc(v, c)) = T!NextLine(Seen(w))
      <3> DEFINE to == k + 1
      <3>1. to = (w.cursor \div COLS + 1) * COLS
        BY <2>4
      <3>2. VgaPutc(v, c) = IF to >= Size THEN [cells |-> Scrolled(w.cells), cursor |-> (ROWS - 1) * COLS]
                            ELSE [w EXCEPT !.cursor = to]
        BY <1>5
      <3> HIDE DEF to
      <3>3. CASE to >= Size
        BY <1>2, <3>1, <3>2, <3>3, NextLineSeen, Zenon
      <3>4. CASE ~(to >= Size)
        BY <1>2, <3>1, <3>2, <3>4, NextLineSeen, Zenon
      <3> QED
        BY <3>3, <3>4
    <2> QED
      BY <1>4, <1>7, <2>5, <2>6 DEF s
  <1> QED
    BY <1>9, <1>10

(* The characters that show nothing.                                         *)
LEMMA NewlineSeen ==
  ASSUME NEW v \in Screens
  PROVE  Seen(VgaPutc(v, NL)) = T!NextLine(Seen(v))
  <1> DEFINE k == v.cursor
             to == k + (COLS - (k % COLS))
  <1>1. NL \notin Shown
    BY VgaAssumption DEF Shown
  <1>2. VgaPutc(v, NL) = Advanced(v, NL)
    <2>1. Stored(v.cells, v.cursor, NL) = v.cells
      BY <1>1 DEF Stored
    <2>2. [v EXCEPT !.cells = Stored(v.cells, v.cursor, NL)] = v
      BY <2>1 DEF Screens
    <2> QED
      BY <2>2, Zenon DEF VgaPutc
  <1>3. Moved(k, NL) = to
    BY <1>1, VgaAssumption DEF Moved
  <1>4. k \in Nat /\ k \in Cells
    BY CellIs DEF Screens
  <1>5. to = (k \div COLS + 1) * COLS
    <2>1. PICK d \in Nat, m \in 0 .. COLS - 1 :
            d = k \div COLS /\ m = k % COLS /\ k = d * COLS + m
      BY <1>4, DivMod
    <2>2. COLS \in Nat
      BY SizeFacts
    <2>3. (d + 1) * COLS = d * COLS + COLS /\ d * COLS \in Nat
      BY <2>1, <2>2
    <2>4. k + (COLS - m) = (d + 1) * COLS
      BY <2>1, <2>2, <2>3
    <2> QED
      BY <2>1, <2>4
  <1> HIDE DEF to
  <1>6. Advanced(v, NL) = IF to >= Size THEN [cells |-> Scrolled(v.cells), cursor |-> (ROWS - 1) * COLS]
                          ELSE [v EXCEPT !.cursor = to]
    BY <1>3 DEF Advanced
  <1>7. CASE to >= Size
    BY <1>2, <1>5, <1>6, <1>7, NextLineSeen, Zenon
  <1>8. CASE ~(to >= Size)
    <2>1. Seen([v EXCEPT !.cursor = to]) = T!NextLine(Seen(v))
      <3>1. PICK x : x = to
        OBVIOUS
      <3>2. x = (v.cursor \div COLS + 1) * COLS /\ ~(x >= Size)
        BY <1>5, <1>8, <3>1
      <3>3. Seen([v EXCEPT !.cursor = x]) = T!NextLine(Seen(v))
        BY <3>2, NextLineSeen, Zenon
      <3> QED
        BY <3>1, <3>3
    <2>2. VgaPutc(v, NL) = [v EXCEPT !.cursor = to]
      BY <1>2, <1>6, <1>8, Zenon
    <2> QED
      BY <2>1, <2>2, Zenon
  <1> QED
    BY <1>7, <1>8

LEMMA BackspaceSeen ==
  ASSUME NEW v \in Screens
  PROVE  Seen(VgaPutc(v, BS)) = T!SteppedBack(Seen(v))
  <1> DEFINE k == v.cursor
             s == Seen(v)
  <1>1. BS \notin Shown /\ BS # NL
    BY VgaAssumption DEF Shown
  <1>2. VgaPutc(v, BS) = Advanced(v, BS)
    <2>1. Stored(v.cells, v.cursor, BS) = v.cells
      BY <1>1 DEF Stored
    <2>2. [v EXCEPT !.cells = Stored(v.cells, v.cursor, BS)] = v
      BY <2>1 DEF Screens
    <2> QED
      BY <2>2, Zenon DEF VgaPutc
  <1>3. k \in Nat /\ k < Size /\ k \in Cells /\ Size \in Nat /\ COLS \in Nat /\ COLS > 0
    BY CellIs, SizeFacts DEF Screens, Cells
  <1>4. s = [lines |-> LinesOf(v.cells), row |-> k \div COLS + 1, col |-> (k % COLS) + 1]
    BY SeenIs
  <1>5. PICK d \in Nat, m \in 0 .. COLS - 1 : d = k \div COLS /\ m = k % COLS /\ k = d * COLS + m
    BY <1>3, DivMod
  <1> HIDE DEF s
  <1>6. CASE k = 0
    <2>1. Advanced(v, BS) = v
      <3>1. Moved(k, BS) = 0
        BY <1>1, <1>6 DEF Moved
      <3>2. [v EXCEPT !.cursor = 0] = v /\ ~(0 >= Size)
        BY <1>3, <1>6 DEF Screens
      <3> QED
        BY <3>1, <3>2 DEF Advanced
    <2>2. d = 0 /\ m = 0
      <3>1. 0 = 0 * COLS + 0 /\ 0 \in 0 .. COLS - 1
        BY <1>3
      <3> QED
        BY <1>5, <1>6, <3>1, DivModIs
    <2>3. T!SteppedBack(s) = s
      BY <1>4, <1>5, <2>2 DEF T!SteppedBack
    <2> QED
      BY <1>2, <2>1, <2>3 DEF s
  <1>7. CASE k > 0
    <2>1. Advanced(v, BS) = [v EXCEPT !.cursor = k - 1]
      <3>1. Moved(k, BS) = k - 1
        BY <1>1, <1>3, <1>7 DEF Moved
      <3>2. ~(k - 1 >= Size)
        BY <1>3, <1>7
      <3> QED
        BY <3>1, <3>2 DEF Advanced
    <2>2. Seen([v EXCEPT !.cursor = k - 1])
            = [lines |-> LinesOf(v.cells), row |-> (k - 1) \div COLS + 1, col |-> ((k - 1) % COLS) + 1]
      <3>1. [v EXCEPT !.cursor = k - 1].cells = v.cells /\ [v EXCEPT !.cursor = k - 1].cursor = k - 1
        BY DEF Screens
      <3> QED
        BY <3>1, SeenIs
    <2>3. s.lines = LinesOf(v.cells) /\ s.row = d + 1 /\ s.col = m + 1
      BY <1>4, <1>5
    <2>4. CASE m > 0
      <3>1. m - 1 \in 0 .. COLS - 1 /\ k - 1 = d * COLS + (m - 1)
        <4> HIDE DEF k
        <4>1. d * COLS \in Nat
          BY <1>3, <1>5
        <4>2. m - 1 \in 0 .. COLS - 1
          BY <1>3, <1>5, <2>4
        <4> QED
          BY <1>3, <1>5, <4>1, <4>2
      <3>2. (k - 1) \div COLS = d /\ (k - 1) % COLS = m - 1
        BY <1>5, <3>1, DivModIs
      <3>3. T!SteppedBack(s) = [lines |-> LinesOf(v.cells), row |-> d + 1, col |-> m]
        BY <1>4, <1>5, <2>3, <2>4 DEF T!SteppedBack
      <3>4. (m - 1) + 1 = m
        OBVIOUS
      <3> QED
        BY <1>2, <2>1, <2>2, <3>2, <3>3, <3>4 DEF s
    <2>5. CASE m = 0
      <3>1. d > 0
        <4>1. d = 0 => k = 0
          BY <1>3, <1>5, <2>5
        <4> QED
          BY <1>5, <1>7, <4>1
      <3>2. d - 1 \in Nat /\ COLS - 1 \in 0 .. COLS - 1 /\ k - 1 = (d - 1) * COLS + (COLS - 1)
        <4>1. PICK e \in Nat : d = e + 1
          <5>1. d - 1 \in Nat /\ d = (d - 1) + 1
            BY <1>5, <3>1
          <5> QED
            BY <5>1
        <4>2. (e + 1) * COLS = e * COLS + COLS /\ e * COLS \in Nat /\ d - 1 = e
          BY <1>3, <4>1
        <4>3. k = e * COLS + COLS
          <5>1. d * COLS = e * COLS + COLS
            BY <4>1, <4>2
          <5>2. d * COLS + m = d * COLS
            BY <1>3, <2>5, <4>2, <5>1
          <5> HIDE DEF k
          <5> QED
            BY <1>5, <5>1, <5>2
        <4> HIDE DEF k
        <4>4. k - 1 = e * COLS + (COLS - 1)
          BY <1>3, <4>2, <4>3
        <4> QED
          BY <1>3, <4>1, <4>2, <4>4
      <3>3. (k - 1) \div COLS = d - 1 /\ (k - 1) % COLS = COLS - 1
        BY <3>2, DivModIs
      <3>4. T!SteppedBack(s) = [lines |-> LinesOf(v.cells), row |-> d, col |-> COLS]
        <4>1. ~(s.col > 1) /\ s.row > 1 /\ s.row - 1 = d
          <5>1. d \in Nat /\ (d + 1) - 1 = d /\ d + 1 > 1
            BY <1>5, <3>1
          <5>2. s.col = 0 + 1 /\ s.row = d + 1
            BY <2>3, <2>5
          <5> HIDE DEF k
          <5> QED
            BY <5>1, <5>2
        <4>2. T!SteppedBack(s) = [s EXCEPT !.row = s.row - 1, !.col = COLS]
          BY <4>1, Zenon DEF T!SteppedBack
        <4> QED
          BY <1>4, <4>1, <4>2
      <3>5. (d - 1) + 1 = d /\ (COLS - 1) + 1 = COLS
        BY <1>3, <1>5
      <3> QED
        BY <1>2, <2>1, <2>2, <3>3, <3>4, <3>5 DEF s
    <2> QED
      BY <1>5, <2>4, <2>5
  <1> QED
    BY <1>3, <1>6, <1>7

LEMMA IgnoredSeen ==
  ASSUME NEW v \in Screens
  PROVE  VgaPutc(v, Ignored) = v
  <1>1. Ignored \notin Shown /\ Ignored # NL /\ Ignored # BS
    BY VgaAssumption DEF Shown
  <1>2. Stored(v.cells, v.cursor, Ignored) = v.cells
    BY <1>1 DEF Stored
  <1>3. [v EXCEPT !.cells = v.cells] = v /\ [v EXCEPT !.cursor = v.cursor] = v
    BY DEF Screens
  <1>4. Moved(v.cursor, Ignored) = v.cursor /\ ~(v.cursor >= Size)
    BY <1>1, SizeFacts DEF Moved, Screens, Cells
  <1>5. Advanced(v, Ignored) = v
    BY <1>3, <1>4 DEF Advanced
  <1> QED
    BY <1>2, <1>3, <1>5 DEF VgaPutc

(* The two steps of a clear.                                                 *)
LEMMA HomeSeen ==
  ASSUME NEW v \in Screens
  PROVE  Seen([v EXCEPT !.cursor = 0]) = [Seen(v) EXCEPT !.row = 1, !.col = 1]
  <1>1. 0 \div COLS = 0 /\ 0 % COLS = 0
    <2>1. 0 = 0 * COLS + 0 /\ 0 \in 0 .. COLS - 1
      BY SizeFacts
    <2> QED
      BY <2>1, DivModIs
  <1>2. [v EXCEPT !.cursor = 0].cells = v.cells /\ [v EXCEPT !.cursor = 0].cursor = 0
    BY DEF Screens
  <1>3. Seen([v EXCEPT !.cursor = 0]) = [lines |-> LinesOf(v.cells), row |-> 1, col |-> 1]
    <2>1. 0 + 1 = 1
      OBVIOUS
    <2> QED
      BY <1>1, <1>2, <2>1, SeenIs
  <1>4. [Seen(v) EXCEPT !.row = 1, !.col = 1] = [lines |-> LinesOf(v.cells), row |-> 1, col |-> 1]
    <2>1. PICK r \in Nat, c \in Nat : r = v.cursor \div COLS + 1 /\ c = (v.cursor % COLS) + 1
      <3>1. v.cursor \in Cells
        BY DEF Screens
      <3> QED
        BY <3>1, CellIs
    <2>2. PICK s : s = Seen(v)
      OBVIOUS
    <2>3. s = [lines |-> LinesOf(v.cells), row |-> r, col |-> c]
      BY <2>1, <2>2, SeenIs
    <2>4. [s EXCEPT !.row = 1, !.col = 1] = [lines |-> LinesOf(v.cells), row |-> 1, col |-> 1]
      <3>1. PICK l : s = [lines |-> l, row |-> r, col |-> c] /\ l = LinesOf(v.cells)
        BY <2>3
      <3>2. PICK h : h = [s EXCEPT !.row = 1]
        OBVIOUS
      <3>3. h = [lines |-> l, row |-> 1, col |-> c]
        BY <3>1, <3>2
      <3>4. [h EXCEPT !.col = 1] = [lines |-> l, row |-> 1, col |-> 1]
        BY <3>3
      <3> QED
        BY <3>1, <3>2, <3>4, Zenon
    <2> QED
      BY <2>2, <2>4, Zenon
  <1> QED
    BY <1>3, <1>4

LEMMA WipeSeen ==
  ASSUME NEW v \in Screens, NEW k \in Cells
  PROVE  Seen([v EXCEPT !.cells[k] = Space])
           = ScreenWith(Seen(v), k \div COLS + 1, (k % COLS) + 1, Space)
  <1>1. PICK w : w = [v EXCEPT !.cells[k] = Space]
    OBVIOUS
  <1>2. PICK row, col, p, q :
          /\ row = v.cursor \div COLS + 1 /\ col = (v.cursor % COLS) + 1
          /\ p = k \div COLS + 1 /\ q = (k % COLS) + 1
    OBVIOUS
  <1>3. v.cells \in [Cells -> Shown] /\ Space \in Shown
    BY DEF Screens, Shown
  <1>4. w.cells = [v.cells EXCEPT ![k] = Space] /\ w.cursor = v.cursor
    BY <1>1 DEF Screens
  <1>5. LinesOf(w.cells) = LinesWith(LinesOf(v.cells), p, q, Space)
    BY <1>2, <1>3, <1>4, CellSeen
  <1>6. Seen(w) = [lines |-> LinesWith(LinesOf(v.cells), p, q, Space), row |-> row, col |-> col]
    BY <1>2, <1>4, <1>5, SeenIs
  <1>7. Seen(v) = [lines |-> LinesOf(v.cells), row |-> row, col |-> col]
    BY <1>2, SeenIs
  <1>8. ScreenWith(Seen(v), p, q, Space)
          = [lines |-> LinesWith(LinesOf(v.cells), p, q, Space), row |-> row, col |-> col]
    <2>1. PICK s : s = Seen(v)
      OBVIOUS
    <2> QED
      BY <1>7, <2>1, ScreenWithIs
  <1> QED
    BY <1>1, <1>2, <1>6, <1>8

-----------------------------------------------------------------------------
(* Only the shell clears, so that one clear at most is under way.            *)
OneClear == \A t \in Task : At(t, "wipe") => t \in Clearer

(* With nobody else in a critical section, what is completed is what t, if   *)
(* it is in one, has left to do.                                             *)
LEMMA CompletedIs ==
  ASSUME TypeOK, NEW t \in Task, NEW c, Goes(t, c), Runs(t)
  PROVE  /\ At(t, "move") => Completed = Advanced(vga, call[t].ch)
         /\ ~At(t, "move") => Completed = vga
         /\ c.at = "move" => Completed' = Advanced(vga', c.ch)
         /\ c.at # "move" => Completed' = vga'
  <1>1. call'[t] = c /\ \A u \in Task \ {t} : call'[u] = call[u]
    BY DEF Goes, TypeOK
  <1>2. \A u \in Task \ {t} : call[u].at # "move" /\ call'[u].at # "move"
    BY <1>1 DEF Runs, At
  <1>3. /\ At(t, "move") => Completed = Advanced(vga, call[t].ch)
        /\ ~At(t, "move") => Completed = vga
    <2>1. CASE At(t, "move")
      <3>1. (CHOOSE u \in Task : At(u, "move")) = t
        BY <1>2, <2>1 DEF At
      <3> QED
        BY <2>1, <3>1 DEF Completed
    <2>2. CASE ~At(t, "move")
      BY <1>2, <2>2 DEF Completed, At
    <2> QED
      BY <2>1, <2>2
  <1>4. ASSUME c.at = "move" PROVE Completed' = Advanced(vga', c.ch)
    <2>1. (CHOOSE u \in Task : call'[u].at = "move") = t
      BY <1>1, <1>2, <1>4
    <2>2. \E u \in Task : call'[u].at = "move"
      BY <1>1, <1>4
    <2>3. Completed' = IF \E u \in Task : call'[u].at = "move"
                       THEN Advanced(vga', call'[CHOOSE u \in Task : call'[u].at = "move"].ch) ELSE vga'
      BY DEF Completed, At, Advanced, Moved
    <2> QED
      BY <1>1, <2>1, <2>2, <2>3
  <1>5. ASSUME c.at # "move" PROVE Completed' = vga'
    <2>1. ~\E u \in Task : call'[u].at = "move"
      BY <1>1, <1>2, <1>5
    <2> QED
      BY <2>1 DEF Completed, At
  <1> QED
    BY <1>3, <1>4, <1>5

(* What the clear under way has left to do.                                  *)
LEMMA LeftIs ==
  ASSUME TypeOK, OneClear, NEW t \in Task, NEW c, Goes(t, c), c.at = "wipe" => t \in Clearer
  PROVE  /\ At(t, "wipe") => LeftToWipe = Size - call[t].n
         /\ t \in Clearer /\ ~At(t, "wipe") => LeftToWipe = 0
         /\ c.at = "wipe" => LeftToWipe' = Size - c.n
         /\ t \in Clearer /\ c.at # "wipe" => LeftToWipe' = 0
         /\ c.at # "wipe" /\ ~At(t, "wipe") => LeftToWipe' = LeftToWipe
         /\ OneClear'
  <1> DEFINE W == {u \in Task : At(u, "wipe")}
  <1>1. call'[t] = c /\ \A u \in Task \ {t} : call'[u] = call[u]
    BY DEF Goes, TypeOK
  <1>2. OneClear'
    BY <1>1 DEF OneClear, At
  <1>3. \A u \in Clearer : u \in Task /\ \A w \in Clearer : w = u
    BY ConsoleAssumption
  <1>4. LeftToWipe = IF W = {} THEN 0 ELSE Size - call[CHOOSE u \in W : TRUE].n
    BY DEF LeftToWipe
  <1>5. LeftToWipe' = IF W' = {} THEN 0 ELSE Size - call'[CHOOSE u \in W' : TRUE].n
    BY DEF LeftToWipe, Size
  <1>6. \A u : u \in W <=> u \in Task /\ call[u].at = "wipe"
    BY DEF At
  <1>7. \A u : u \in W' <=> u \in Task /\ call'[u].at = "wipe"
    BY DEF At
  <1>8. W \subseteq Clearer /\ W' \subseteq Clearer
    BY <1>2, <1>6, <1>7 DEF OneClear, At
  <1>9. (At(t, "wipe") <=> t \in W) /\ (c.at = "wipe" <=> t \in W')
    BY <1>1, <1>6, <1>7 DEF At
  <1>10. PICK A, B : A = W /\ B = W'
    OBVIOUS
  <1> HIDE DEF W
  <1>11. /\ LeftToWipe = IF A = {} THEN 0 ELSE Size - call[CHOOSE u \in A : TRUE].n
         /\ LeftToWipe' = IF B = {} THEN 0 ELSE Size - call'[CHOOSE u \in B : TRUE].n
         /\ A \subseteq Clearer /\ B \subseteq Clearer
         /\ At(t, "wipe") <=> t \in A
         /\ c.at = "wipe" <=> t \in B
    <2>1. LeftToWipe = IF A = {} THEN 0 ELSE Size - call[CHOOSE u \in A : TRUE].n
      BY <1>4, <1>10
    <2>2. LeftToWipe' = IF B = {} THEN 0 ELSE Size - call'[CHOOSE u \in B : TRUE].n
      BY <1>5, <1>10
    <2>3. A \subseteq Clearer /\ B \subseteq Clearer
      BY <1>8, <1>10
    <2>4. (At(t, "wipe") <=> t \in A) /\ (c.at = "wipe" <=> t \in B)
      BY <1>9, <1>10
    <2> QED
      BY <2>1, <2>2, <2>3, <2>4
  <1>12. ASSUME t \in Clearer
         PROVE  /\ (t \in A => A = {t}) /\ (t \notin A => A = {})
                /\ (t \in B => B = {t}) /\ (t \notin B => B = {})
    BY <1>3, <1>11, <1>12
  <1>13. (CHOOSE u \in {t} : TRUE) = t
    OBVIOUS
  <1>14. t \in A \/ t \in B => t \in Clearer
    BY <1>11
  <1>15. ASSUME t \notin A, t \notin B PROVE LeftToWipe' = LeftToWipe
    <2>1. A = B
      BY <1>1, <1>6, <1>7, <1>10, <1>15
    <2>2. CASE A = {}
      BY <1>11, <2>1, <2>2
    <2>3. CASE A # {}
      <3>1. PICK w : w = CHOOSE u \in A : TRUE
        OBVIOUS
      <3>2. w \in A
        BY <2>3, <3>1
      <3>3. w \in Task /\ w # t
        BY <1>6, <1>10, <1>15, <3>2
      <3>4. call'[w] = call[w]
        BY <1>1, <3>3
      <3> QED
        BY <1>11, <2>1, <2>3, <3>1, <3>4
    <2> QED
      BY <2>2, <2>3
  <1>16. ASSUME t \in A PROVE LeftToWipe = Size - call[t].n
    <2>1. A = {t}
      BY <1>12, <1>14, <1>16
    <2>2. A # {} /\ (CHOOSE u \in A : TRUE) = t
      BY <1>13, <2>1
    <2> QED
      BY <1>11, <2>2, Zenon
  <1>17. ASSUME t \in B PROVE LeftToWipe' = Size - c.n
    <2>1. B = {t}
      BY <1>12, <1>14, <1>17
    <2>2. B # {} /\ (CHOOSE u \in B : TRUE) = t
      BY <1>13, <2>1
    <2> QED
      BY <1>1, <1>11, <2>2, Zenon
  <1>18. ASSUME t \in Clearer PROVE (t \notin A => LeftToWipe = 0) /\ (t \notin B => LeftToWipe' = 0)
    BY <1>11, <1>12, <1>18, Zenon
  <1> QED
    BY <1>2, <1>11, <1>15, <1>16, <1>17, <1>18

(* The two variables of Terminal, before and after a step.                   *)
Maps(a, b) ==
  /\ T!Put <=> /\ \E g \in Glyphs \union {Space} : Seen(b) = T!Written(Seen(a), g)
               /\ LeftToWipe' = LeftToWipe
  /\ T!Newline <=> Seen(b) = T!NextLine(Seen(a)) /\ LeftToWipe' = LeftToWipe
  /\ T!Backspace <=> Seen(b) = T!SteppedBack(Seen(a)) /\ LeftToWipe' = LeftToWipe
  /\ T!Home <=> /\ LeftToWipe = 0 /\ LeftToWipe' = COLS * ROWS
                /\ Seen(b) = [Seen(a) EXCEPT !.row = 1, !.col = 1]
  /\ T!Wipe <=> LET done == COLS * ROWS - LeftToWipe
                IN  /\ LeftToWipe > 0 /\ LeftToWipe' = LeftToWipe - 1
                    /\ Seen(b) = ScreenWith(Seen(a), (done \div COLS) + 1, (done % COLS) + 1, Space)
  /\ UNCHANGED T!tvars <=> Seen(b) = Seen(a) /\ LeftToWipe' = LeftToWipe

LEMMA Mapped ==
  ASSUME NEW a, NEW b, a = Completed, b = Completed'
  PROVE  Maps(a, b)
  <1>1. Seen(Completed)' = Seen(b) /\ Seen(Completed) = Seen(a)
    BY DEF Seen
  <1>2. T!Put <=> /\ \E g \in Glyphs \union {Space} : Seen(Completed)' = T!Written(Seen(Completed), g)
                  /\ LeftToWipe' = LeftToWipe
    BY DEF T!Put
  <1>3. T!Newline <=> Seen(Completed)' = T!NextLine(Seen(Completed)) /\ LeftToWipe' = LeftToWipe
    BY DEF T!Newline
  <1>4. T!Backspace <=> Seen(Completed)' = T!SteppedBack(Seen(Completed)) /\ LeftToWipe' = LeftToWipe
    BY DEF T!Backspace
  <1>5. T!Home <=> /\ LeftToWipe = 0 /\ LeftToWipe' = COLS * ROWS
                   /\ Seen(Completed)' = [Seen(Completed) EXCEPT !.row = 1, !.col = 1]
    BY DEF T!Home
  <1>6. T!Wipe <=> LET done == COLS * ROWS - LeftToWipe
                   IN  /\ LeftToWipe > 0 /\ LeftToWipe' = LeftToWipe - 1
                       /\ Seen(Completed)' = ScreenWith(Seen(Completed), (done \div COLS) + 1, (done % COLS) + 1, Space)
    BY DEF T!Wipe, ScreenWith
  <1>7. UNCHANGED T!tvars <=> Seen(Completed)' = Seen(Completed) /\ LeftToWipe' = LeftToWipe
    BY DEF T!tvars
  <1> QED
    BY <1>1, <1>2, <1>3, <1>4, <1>5, <1>6, <1>7, Zenon DEF Maps

(* Each step of a task is one of a terminal, or none.                        *)
TStep == OneClear' /\ (T!TNext \/ UNCHANGED T!tvars)

LEMMA QuietStep ==
  ASSUME TypeOK, OneClear, NEW t \in Task, NEW c, Goes(t, c), Runs(t), vga' = vga,
         ~At(t, "move"), c.at # "move", ~At(t, "wipe"), c.at # "wipe"
  PROVE  TStep
  <1>1. Completed = vga /\ Completed' = vga
    BY CompletedIs
  <1>2. LeftToWipe' = LeftToWipe /\ OneClear'
    BY LeftIs
  <1>3. PICK a, b : a = Completed /\ b = Completed' /\ Maps(a, b)
    BY Mapped
  <1>4. Seen(b) = Seen(a)
    BY <1>1, <1>3
  <1> QED
    BY <1>2, <1>3, <1>4 DEF Maps, TStep

LEMMA ScreenStep == TypeOK /\ OneClear /\ [Next]_vars => TStep
  <1> SUFFICES ASSUME TypeOK, OneClear, [Next]_vars PROVE TStep
    OBVIOUS
  <1> USE DEF Screens
  <1>1. vga \in Screens
    BY DEF TypeOK
  <1>2. ASSUME NEW t \in Task, SerialPutc(t) \/ ConsoleWrite(t) PROVE TStep
    <2>1. PICK c : Goes(t, c) /\ c.at \in {"wait", "cell"}
      <3>1. \A x : [Idle EXCEPT !.at = "wait", !.then = x].at = "wait"
        BY DEF Idle
      <3>2. [Idle EXCEPT !.at = "cell"].at = "cell"
        BY DEF Idle
      <3> QED
        BY <1>2, <3>1, <3>2 DEF SerialPutc, ConsoleWrite
    <2>2. Runs(t) /\ vga' = vga /\ ~At(t, "move") /\ ~At(t, "wipe")
      BY <1>2 DEF SerialPutc, ConsoleWrite, ScreenElse, At
    <2> QED
      BY <2>1, <2>2, QuietStep
  <1>3. ASSUME NEW t \in Task, SerialTest(t) \/ SerialSend(t) PROVE TStep
    <2>1. Runs(t) /\ vga' = vga /\ ~At(t, "move") /\ ~At(t, "wipe")
      BY <1>3 DEF SerialTest, SerialSend, ScreenElse, At
    <2>2. PICK c : Goes(t, c) /\ c.at \in {"wait", "send", "idle", "cell"}
      <3>1. [call[t] EXCEPT !.at = "send"].at = "send"
        BY DEF TypeOK
      <3>2. [Idle EXCEPT !.at = call[t].then].at \in {"idle", "cell"}
        BY DEF TypeOK, Idle
      <3> QED
        BY <1>3, <3>1, <3>2 DEF SerialTest, SerialSend, At
    <2> QED
      BY <2>1, <2>2, QuietStep
  <1>4. ASSUME NEW t \in Task, SetCursor(t) PROVE TStep
    <2>1. Runs(t) /\ vga' = vga /\ ~At(t, "move") /\ ~At(t, "wipe")
      BY <1>4 DEF SetCursor, At
    <2>2. PICK c : Goes(t, c) /\ c.at \in {"out", "idle"}
      <3>1. [call[t] EXCEPT !.k = @ + 1].at = call[t].at
        BY DEF TypeOK
      <3> QED
        <4>1. CASE call[t].k = 4
          BY <1>4, <4>1 DEF SetCursor, Idle
        <4>2. CASE call[t].k # 4
          BY <1>4, <3>1, <4>2 DEF SetCursor, At
        <4> QED
          BY <4>1, <4>2
    <2> QED
      BY <2>1, <2>2, QuietStep
  <1>5. ASSUME NEW t \in Task, VgaStore(t) PROVE TStep
    <2>1. PICK ch \in Chars : /\ vga' = [vga EXCEPT !.cells = Stored(@, vga.cursor, ch)]
                              /\ Goes(t, [Idle EXCEPT !.at = "move", !.ch = ch])
      BY <1>5, Zenon DEF VgaStore
    <2>2. PICK c : c = [Idle EXCEPT !.at = "move", !.ch = ch]
      OBVIOUS
    <2>3. c.at = "move" /\ c.ch = ch
      BY <2>2 DEF Idle
    <2>4. Runs(t) /\ ~At(t, "move") /\ ~At(t, "wipe") /\ Goes(t, c)
      BY <1>5, <2>1, <2>2 DEF VgaStore, At
    <2>5. Completed = vga /\ Completed' = Advanced(vga', ch)
      BY <2>3, <2>4, CompletedIs
    <2>6. LeftToWipe' = LeftToWipe /\ OneClear'
      BY <2>3, <2>4, LeftIs
    <2>7. PICK a, b : a = Completed /\ b = Completed' /\ Maps(a, b)
      BY Mapped
    <2>8. a \in Screens /\ b = VgaPutc(a, ch)
      BY <1>1, <2>1, <2>5, <2>7 DEF VgaPutc
    <2>9. CASE ch \in Shown
      <3>1. Seen(b) = T!Written(Seen(a), ch)
        BY <2>8, <2>9, PutSeen
      <3>2. T!Put
        BY <2>6, <2>7, <2>9, <3>1 DEF Maps, Shown
      <3> QED
        BY <2>6, <3>2 DEF TStep, T!TNext
    <2>10. CASE ch = NL
      <3>1. T!Newline
        BY <2>6, <2>7, <2>8, <2>10, NewlineSeen DEF Maps
      <3> QED
        BY <2>6, <3>1 DEF TStep, T!TNext
    <2>11. CASE ch = BS
      <3>1. T!Backspace
        BY <2>6, <2>7, <2>8, <2>11, BackspaceSeen DEF Maps
      <3> QED
        BY <2>6, <3>1 DEF TStep, T!TNext
    <2>12. CASE ch = Ignored
      <3>1. UNCHANGED T!tvars
        BY <2>6, <2>7, <2>8, <2>12, IgnoredSeen DEF Maps
      <3> QED
        BY <2>6, <3>1 DEF TStep
    <2> QED
      BY <2>9, <2>10, <2>11, <2>12 DEF Chars
  <1>6. ASSUME NEW t \in Task, VgaMove(t) PROVE TStep
    <2>1. PICK c : c = [Idle EXCEPT !.at = "out", !.n = vga'.cursor]
      OBVIOUS
    <2>2. c.at = "out"
      BY <2>1 DEF Idle
    <2>3. Runs(t) /\ At(t, "move") /\ ~At(t, "wipe") /\ Goes(t, c) /\ vga' = Advanced(vga, call[t].ch)
      BY <1>6, <2>1 DEF VgaMove, At
    <2>4. Completed' = Completed
      BY <2>2, <2>3, CompletedIs
    <2>5. LeftToWipe' = LeftToWipe /\ OneClear'
      BY <2>2, <2>3, LeftIs
    <2>6. PICK a, b : a = Completed /\ b = Completed' /\ Maps(a, b)
      BY Mapped
    <2> QED
      BY <2>4, <2>5, <2>6 DEF Maps, TStep
  <1>7. ASSUME NEW t \in Task, ClearHome(t) PROVE TStep
    <2>1. PICK c : c = [Idle EXCEPT !.at = "wipe"]
      OBVIOUS
    <2>2. c.at = "wipe" /\ c.n = 0
      BY <2>1 DEF Idle
    <2>3. /\ Runs(t) /\ ~At(t, "move") /\ ~At(t, "wipe") /\ t \in Clearer /\ Goes(t, c)
          /\ vga' = [vga EXCEPT !.cursor = 0]
      BY <1>7, <2>1 DEF ClearHome, At
    <2>4. PICK a, b : a = Completed /\ b = Completed' /\ Maps(a, b)
      BY Mapped
    <2>5. a = vga /\ b = [a EXCEPT !.cursor = 0]
      BY <2>2, <2>3, <2>4, CompletedIs
    <2>6. LeftToWipe = 0 /\ LeftToWipe' = Size /\ OneClear'
      <3>1. Size - 0 = Size
        BY SizeFacts
      <3> QED
        BY <2>2, <2>3, <3>1, LeftIs
    <2>7. T!Home
      <3>1. Seen(b) = [Seen(a) EXCEPT !.row = 1, !.col = 1]
        BY <1>1, <2>5, HomeSeen, Zenon
      <3> QED
        BY <2>4, <2>6, <3>1, Zenon DEF Maps, Size
    <2> QED
      BY <2>6, <2>7 DEF TStep, T!TNext
  <1>8. ASSUME NEW t \in Task, ClearCell(t) PROVE TStep
    <2>1. PICK c, n : c = [call[t] EXCEPT !.n = @ + 1] /\ n = call[t].n
      OBVIOUS
    <2>2. At(t, "wipe") /\ n \in Nat /\ n < Size /\ c.at = "wipe" /\ c.n = n + 1
      BY <1>8, <2>1, SizeFacts DEF ClearCell, At, TypeOK
    <2>3. /\ Runs(t) /\ ~At(t, "move") /\ t \in Clearer /\ Goes(t, c)
          /\ vga' = [vga EXCEPT !.cells[n] = Space]
      BY <1>8, <2>1, <2>2 DEF ClearCell, At, OneClear
    <2>4. PICK a, b : a = Completed /\ b = Completed' /\ Maps(a, b)
      BY Mapped
    <2>5. a = vga /\ b = [a EXCEPT !.cells[n] = Space] /\ a \in Screens
      BY <1>1, <2>2, <2>3, <2>4, CompletedIs
    <2>6. LeftToWipe = Size - n /\ LeftToWipe' = Size - (n + 1) /\ OneClear'
      BY <2>1, <2>2, <2>3, LeftIs
    <2>7. LeftToWipe > 0 /\ LeftToWipe' = LeftToWipe - 1 /\ COLS * ROWS - LeftToWipe = n /\ n \in Cells
      BY <2>2, <2>6, SizeFacts DEF Size, Cells
    <2>8. Seen(b) = ScreenWith(Seen(a), (n \div COLS) + 1, (n % COLS) + 1, Space)
      BY <2>5, <2>7, WipeSeen
    <2>9. T!Wipe
      BY <2>4, <2>7, <2>8 DEF Maps
    <2> QED
      BY <2>6, <2>9 DEF TStep, T!TNext
  <1>9. ASSUME NEW t \in Task, ClearCursor(t) PROVE TStep
    <2>1. PICK c : c = [Idle EXCEPT !.at = "out", !.n = vga.cursor]
      OBVIOUS
    <2>2. c.at = "out"
      BY <2>1 DEF Idle
    <2>3. /\ Runs(t) /\ ~At(t, "move") /\ At(t, "wipe") /\ t \in Clearer /\ Goes(t, c)
          /\ vga' = vga /\ call[t].n = Size
      BY <1>9, <2>1 DEF ClearCursor, At, OneClear
    <2>4. LeftToWipe = 0 /\ LeftToWipe' = 0 /\ OneClear'
      <3>1. Size - Size = 0
        BY SizeFacts
      <3> QED
        BY <2>2, <2>3, <3>1, LeftIs
    <2>5. Completed' = Completed
      BY <2>2, <2>3, CompletedIs
    <2>6. PICK a, b : a = Completed /\ b = Completed' /\ Maps(a, b)
      BY Mapped
    <2> QED
      BY <2>4, <2>5, <2>6 DEF Maps, TStep
  <1>10. ASSUME UNCHANGED <<vga, call>> PROVE TStep
    <2>1. OneClear' /\ LeftToWipe' = LeftToWipe /\ Completed' = Completed
      BY <1>10 DEF OneClear, LeftToWipe, Completed, At, Advanced, Moved, Size
    <2>2. PICK a, b : a = Completed /\ b = Completed' /\ Maps(a, b)
      BY Mapped
    <2> QED
      BY <2>1, <2>2 DEF Maps, TStep
  <1>11. Drain \/ UNCHANGED vars => UNCHANGED <<vga, call>>
    BY DEF Drain, ScreenElse, vars
  <1> QED
    BY <1>2, <1>3, <1>4, <1>5, <1>6, <1>7, <1>8, <1>9, <1>10, <1>11 DEF Next, GoesOn

LEMMA ScreenStart == Init => T!TInit /\ OneClear
  <1> SUFFICES ASSUME Init PROVE T!TInit /\ OneClear
    OBVIOUS
  <1>1. \A t \in Task : ~At(t, "move") /\ ~At(t, "wipe")
    BY DEF Init, At, Idle
  <1>2. Completed = vga /\ LeftToWipe = 0 /\ OneClear
    BY <1>1 DEF Completed, LeftToWipe, OneClear
  <1>3. vga = [cells |-> Cleared, cursor |-> 0]
    BY DEF Init
  <1>4. 0 \div COLS = 0 /\ 0 % COLS = 0
    <2>1. 0 = 0 * COLS + 0 /\ 0 \in 0 .. COLS - 1
      BY SizeFacts
    <2> QED
      BY <2>1, DivModIs
  <1>5. LinesOf(Cleared) = [r \in 1 .. ROWS |-> T!BlankLine]
    BY PlaceIs DEF LinesOf, Cleared, T!BlankLine
  <1>6. Seen(Completed) = [lines |-> [r \in 1 .. ROWS |-> T!BlankLine], row |-> 1, col |-> 1]
    <2>1. vga.cells = Cleared /\ vga.cursor = 0 /\ 0 + 1 = 1
      BY <1>3
    <2> QED
      BY <1>2, <1>4, <1>5, <2>1, SeenIs
  <1> QED
    BY <1>2, <1>6 DEF T!TInit

(* However the tasks that print and the shell that clears are interleaved,   *)
(* the screen is a terminal's that got the characters one after the other    *)
(* (the critical section of vga_putc, and the scroll inside it).             *)
THEOREM ConsoleScreenIsTerminal == Spec => ScreenIsTerminal
  <1>1. Init => T!TInit /\ OneClear
    BY ScreenStart
  <1>2. IInv /\ OneClear /\ [Next]_vars => OneClear' /\ [T!TNext]_(T!tvars)
    BY ScreenStep DEF IInv, TStep
  <1> QED
    BY <1>1, <1>2, ConsoleInvariant, PTL DEF Spec, ScreenIsTerminal, T!TSpec

-----------------------------------------------------------------------------
(* Induction, over numbers up to N, with a set for the formula.              *)
LEMMA Least ==
  ASSUME NEW S, S \subseteq Nat, S # {}
  PROVE  \E m \in S : \A k \in S : m <= k
  <1>1. IsWellFoundedOn(OpToRel(<, Nat), Nat)
    BY NatLessThanWellFounded
  <1>2. PICK m \in S : \A k \in S : ~(<<k, m>> \in OpToRel(<, Nat))
    BY <1>1, WFMin
  <1>3. \A k \in S : ~(k < m)
    BY <1>2 DEF OpToRel
  <1> QED
    BY <1>3

LEMMA Counting ==
  ASSUME NEW N \in Nat, NEW S, 0 \in S, \A n \in 1 .. N : n - 1 \in S => n \in S
  PROVE  \A n \in 0 .. N : n \in S
  <1> DEFINE B == {n \in 0 .. N : n \notin S}
  <1>1. SUFFICES ASSUME B # {} PROVE FALSE
    OBVIOUS
  <1>2. B \subseteq Nat
    OBVIOUS
  <1>3. PICK m \in B : \A k \in B : m <= k
    BY <1>1, <1>2, Least
  <1>4. m \in 1 .. N /\ m - 1 \in 0 .. N /\ m \notin S
    OBVIOUS
  <1>5. m - 1 \notin B
    BY <1>3, <1>4
  <1> QED
    BY <1>4, <1>5

(* A chain of N links from x: link n takes what the one before left.         *)
Links(f, N, x, G) == f[0] = x /\ \A n \in 1 .. N : f[n] = G[n][f[n - 1]]

LEMMA ChainExists ==
  ASSUME NEW A, NEW N \in Nat, NEW x \in A, NEW G \in [1 .. N -> [A -> A]]
  PROVE  \E f \in [0 .. N -> A] : Links(f, N, x, G)
  <1> DEFINE S == {k \in 0 .. N : \E f \in [0 .. k -> A] : Links(f, k, x, G)}
  <1>1. 0 \in S
    <2>1. [n \in 0 .. 0 |-> x] \in [0 .. 0 -> A] /\ Links([n \in 0 .. 0 |-> x], 0, x, G)
      BY DEF Links
    <2> QED
      BY <2>1
  <1>2. ASSUME NEW k \in 1 .. N, k - 1 \in S PROVE k \in S
    <2>1. PICK f \in [0 .. k - 1 -> A] : Links(f, k - 1, x, G)
      BY <1>2
    <2>2. PICK g : g = [n \in 0 .. k |-> IF n = k THEN G[k][f[k - 1]] ELSE f[n]]
      OBVIOUS
    <2>3. k \in Nat /\ k - 1 \in 0 .. k - 1 /\ k \in 0 .. N
      OBVIOUS
    <2>4. f[k - 1] \in A /\ G[k] \in [A -> A]
      BY <2>3
    <2>5. g \in [0 .. k -> A]
      <3>1. ASSUME NEW n \in 0 .. k, n # k PROVE n \in 0 .. k - 1
        BY <2>3, <3>1
      <3> QED
        BY <2>2, <2>4, <3>1
    <2>6. g[0] = x
      BY <2>1, <2>2, <2>3 DEF Links
    <2>7. ASSUME NEW n \in 1 .. k PROVE g[n] = G[n][g[n - 1]]
      <3>1. CASE n = k
        BY <2>2, <2>3, <3>1
      <3>2. CASE n # k
        <4>1. n \in 1 .. k - 1 /\ n \in 0 .. k /\ n - 1 \in 0 .. k /\ n - 1 # k
          BY <2>3, <3>2
        <4>2. f[n] = G[n][f[n - 1]]
          BY <2>1, <4>1 DEF Links
        <4>3. g[n] = f[n] /\ g[n - 1] = f[n - 1]
          BY <2>2, <3>2, <4>1
        <4> QED
          BY <4>2, <4>3
      <3> QED
        BY <3>1, <3>2
    <2>8. Links(g, k, x, G)
      BY <2>6, <2>7 DEF Links
    <2> QED
      BY <2>3, <2>5, <2>8
  <1>3. N \in S
    <2> HIDE DEF S
    <2>1. \A n \in 0 .. N : n \in S
      BY <1>1, <1>2, Counting
    <2> QED
      BY <2>1
  <1> QED
    BY <1>3

(* No other function computes it.                                            *)
Chained(f, N, x, G, A) == f \in [0 .. N -> A] /\ Links(f, N, x, G)
Agree(g, f, N) == \A n \in 0 .. N : g[n] = f[n]
Follows(g, N, x, G, A) ==
  g[0] = x /\ \A n \in 1 .. N : g[n - 1] \in A => g[n] = G[n][g[n - 1]]

LEMMA ChainOnly ==
  ASSUME NEW A, NEW N \in Nat, NEW x, NEW G, NEW f, Chained(f, N, x, G, A),
         NEW g, Follows(g, N, x, G, A)
  PROVE  Agree(g, f, N)
  <1> DEFINE S == {n \in 0 .. N : g[n] = f[n]}
  <1>1. 0 \in S
    BY DEF Chained, Links, Follows
  <1>2. ASSUME NEW n \in 1 .. N, n - 1 \in S PROVE n \in S
    <2>1. n \in 0 .. N /\ n - 1 \in 0 .. N /\ f[n - 1] \in A /\ g[n - 1] = f[n - 1]
      BY <1>2 DEF Chained
    <2> QED
      BY <2>1 DEF Chained, Links, Follows
  <1> HIDE DEF S
  <1>3. \A n \in 0 .. N : n \in S
    BY <1>1, <1>2, Counting
  <1> QED
    BY <1>3 DEF S, Agree

-----------------------------------------------------------------------------
(* The prompt has a screen of its own.  Nothing is on it from the cursor on; *)
(* a text is the end of what is on it, up to the cursor.                     *)
Texts == Seq(Shown)
Blank(v) == \A k \in Cells : k >= v.cursor => v.cells[k] = Space
EndsWith(v, t) ==
  Len(t) <= v.cursor /\ \A k \in 1 .. Len(t) : v.cells[v.cursor - Len(t) + k - 1] = t[k]

LEMMA PutType ==
  ASSUME NEW v \in Screens, NEW c \in Chars
  PROVE  VgaPutc(v, c) \in Screens
  <1>1. v.cells \in [Cells -> Shown] /\ v.cursor \in Cells
    BY DEF Screens
  <1>2. [v EXCEPT !.cells = Stored(@, v.cursor, c)] \in Screens
    BY <1>1, StoredType DEF Screens
  <1> QED
    BY <1>2, AdvancedType DEF Screens, VgaPutc

(* What a character shown does to the screen; on the last place it scrolls.  *)
LEMMA PutCells ==
  ASSUME NEW v \in Screens, NEW c \in Shown, NEW w, w = VgaPutc(v, c)
  PROVE  \/ /\ v.cursor + 1 \in Cells /\ w.cursor = v.cursor + 1
            /\ \A k \in Cells : w.cells[k] = IF k = v.cursor THEN c ELSE v.cells[k]
         \/ /\ v.cursor + 1 = Size /\ w.cursor = (ROWS - 1) * COLS
            /\ \A k \in Cells : k >= w.cursor => w.cells[k] = Space
            /\ \A k \in Cells : k < w.cursor =>
                 k + COLS \in Cells /\ w.cells[k] = IF k + COLS = v.cursor THEN c ELSE v.cells[k + COLS]
  <1> DEFINE u == [v EXCEPT !.cells = Stored(@, v.cursor, c)]
  <1>1. v.cells \in [Cells -> Shown] /\ v.cursor \in Cells /\ v.cursor \in Nat
    BY DEF Screens, Cells
  <1>2. u.cells = [v.cells EXCEPT ![v.cursor] = c] /\ u.cursor = v.cursor
    BY DEF Stored, Screens
  <1>3. Moved(u.cursor, c) = v.cursor + 1
    <2>1. c # NL /\ c # BS
      BY VgaAssumption DEF Shown
    <2> QED
      BY <1>2, <2>1 DEF Moved
  <1>4. CASE v.cursor + 1 < Size
    <2>1. w.cells = u.cells /\ w.cursor = v.cursor + 1
      BY <1>1, <1>2, <1>3, <1>4, SizeFacts DEF VgaPutc, Advanced, Screens
    <2>2. v.cursor + 1 \in Cells
      BY <1>1, <1>4, SizeFacts DEF Cells
    <2>3. \A k \in Cells : w.cells[k] = IF k = v.cursor THEN c ELSE v.cells[k]
      BY <1>1, <1>2, <2>1
    <2> QED
      BY <2>1, <2>2, <2>3
  <1>5. CASE ~(v.cursor + 1 < Size)
    <2>1. v.cursor + 1 = Size
      BY <1>1, <1>5, SizeFacts DEF Cells
    <2>2. w.cells = Scrolled(u.cells) /\ w.cursor = (ROWS - 1) * COLS
      BY <1>3, <2>1, SizeFacts DEF VgaPutc, Advanced
    <2>3. ASSUME NEW k \in Cells, k < w.cursor
          PROVE  k + COLS \in Cells /\ w.cells[k] = IF k + COLS = v.cursor THEN c ELSE v.cells[k + COLS]
      <3>1. k + COLS \in Cells
        BY <2>2, <2>3, SizeFacts DEF Cells
      <3> QED
        BY <1>1, <1>2, <2>2, <2>3, <3>1 DEF Scrolled
    <2>4. ASSUME NEW k \in Cells, k >= w.cursor PROVE w.cells[k] = Space
      BY <2>2, <2>4, SizeFacts DEF Scrolled, Cells
    <2> QED
      BY <2>1, <2>2, <2>3, <2>4
  <1> QED
    BY <1>4, <1>5

(* Nothing that goes forward leaves anything after the cursor.               *)
LEMMA PutBlank ==
  ASSUME NEW v \in Screens, Blank(v), NEW c \in Shown \union {NL}
  PROVE  Blank(VgaPutc(v, c))
  <1>1. v.cells \in [Cells -> Shown] /\ v.cursor \in Cells /\ v.cursor \in Nat
    BY DEF Screens, Cells
  <1>2. CASE c \in Shown
    <2>1. PICK w : w = VgaPutc(v, c)
      OBVIOUS
    <2>2. Blank(w)
      <3>1. Size \in Nat /\ (ROWS - 1) * COLS \in Cells /\ Cells \subseteq Nat
        BY SizeFacts DEF Cells
      <3>2. CASE w.cursor = v.cursor + 1
        <4>1. \A k \in Cells : k >= w.cursor => k # v.cursor /\ k >= v.cursor
          BY <1>1, <3>1, <3>2
        <4>2. \A k \in Cells : k >= v.cursor => v.cells[k] = Space
          BY DEF Blank
        <4>3. \/ \A k \in Cells : w.cells[k] = IF k = v.cursor THEN c ELSE v.cells[k]
              \/ \A k \in Cells : k >= w.cursor => w.cells[k] = Space
          BY <1>2, <2>1, PutCells
        <4> QED
          BY <4>1, <4>2, <4>3 DEF Blank
      <3>3. CASE w.cursor # v.cursor + 1
        <4>1. \A k \in Cells : k >= w.cursor => w.cells[k] = Space
          BY <1>2, <2>1, <3>3, PutCells
        <4> QED
          BY <4>1 DEF Blank
      <3> QED
        BY <3>2, <3>3
    <2> QED
      BY <2>1, <2>2
  <1>3. CASE c = NL
    <2>1. c \notin Shown
      BY <1>3, VgaAssumption DEF Shown
    <2>2. [v EXCEPT !.cells = Stored(@, v.cursor, c)] = v
      BY <1>1, <2>1 DEF Stored, Screens
    <2>3. VgaPutc(v, c) = Advanced(v, c)
      BY <2>2 DEF VgaPutc
    <2>4. PICK to : to = Moved(v.cursor, c)
      OBVIOUS
    <2>5. to \in Nat /\ to >= v.cursor
      <3>1. to = v.cursor + (COLS - (v.cursor % COLS))
        BY <1>3, <2>1, <2>4, VgaAssumption DEF Moved
      <3>2. v.cursor % COLS \in 0 .. COLS - 1
        BY <1>1, SizeFacts
      <3> QED
        BY <1>1, <3>1, <3>2, SizeFacts
    <2>6. CASE to >= Size
      <3>1. VgaPutc(v, c) = [cells |-> Scrolled(v.cells), cursor |-> (ROWS - 1) * COLS]
        BY <2>3, <2>4, <2>6 DEF Advanced
      <3> QED
        BY <3>1, SizeFacts DEF Blank, Scrolled, Cells
    <2>7. CASE ~(to >= Size)
      <3>1. VgaPutc(v, c) = [v EXCEPT !.cursor = to]
        BY <2>3, <2>4, <2>7 DEF Advanced
      <3>2. VgaPutc(v, c).cursor = to /\ VgaPutc(v, c).cells = v.cells
        BY <3>1 DEF Screens
      <3> QED
        BY <1>1, <2>5, <3>2 DEF Blank, Cells
    <2> QED
      BY <2>6, <2>7
  <1> QED
    BY <1>2, <1>3

LEMMA PutEnds ==
  ASSUME NEW v \in Screens, NEW t \in Texts, EndsWith(v, t), NEW c \in Shown,
         Len(t) < (ROWS - 1) * COLS
  PROVE  EndsWith(VgaPutc(v, c), Append(t, c))
  <1>1. v.cells \in [Cells -> Shown] /\ v.cursor \in Cells /\ v.cursor \in Nat
    BY DEF Screens, Cells
  <1>2. PICK n : n = Len(t)
    OBVIOUS
  <1>3. n \in Nat /\ n < (ROWS - 1) * COLS /\ n <= v.cursor
    BY <1>2 DEF Texts, EndsWith
  <1>4. PICK w : w = VgaPutc(v, c)
    OBVIOUS
  <1>5. PICK s : s = Append(t, c)
    OBVIOUS
  <1>6. Len(s) = n + 1 /\ s[n + 1] = c /\ \A k \in 1 .. n : s[k] = t[k]
    BY <1>2, <1>5 DEF Texts
  <1>7. \A k \in 1 .. n : v.cells[v.cursor - n + k - 1] = t[k]
    BY <1>2 DEF EndsWith
  <1>8. w \in Screens /\ w.cursor \in Cells /\ w.cursor \in Nat
    <2>1. w \in Screens
      BY <1>4, PutType DEF Chars
    <2> QED
      BY <2>1 DEF Screens, Cells
  <1>9. n + 1 <= w.cursor
    BY <1>1, <1>3, <1>4, PutCells, SizeFacts DEF Cells
  <1>10. ASSUME NEW k \in 1 .. n + 1 PROVE w.cells[w.cursor - (n + 1) + k - 1] = s[k]
    <2>1. PICK j : j = w.cursor - (n + 1) + k - 1
      OBVIOUS
    <2>2. j \in Nat /\ j < w.cursor /\ j \in Cells
      <3>1. k \in Nat /\ k >= 1 /\ k <= n + 1
        BY <1>3
      <3>2. j \in Nat /\ j < w.cursor
        BY <1>3, <1>8, <1>9, <2>1, <3>1
      <3> QED
        BY <1>8, <3>2, SizeFacts DEF Cells
    <2>3. CASE k = n + 1
      <3>1. j = w.cursor - 1
        BY <1>3, <1>8, <2>1, <2>3
      <3>2. w.cells[j] = c
        <4>1. CASE w.cursor = v.cursor + 1 /\ v.cursor + 1 \in Cells
          <5>1. j = v.cursor /\ v.cursor + 1 # Size
            <6>1. Size \in Nat /\ v.cursor \in Nat
              BY <1>1, SizeFacts DEF Cells
            <6> QED
              BY <3>1, <4>1, <6>1 DEF Cells
          <5> QED
            BY <1>4, <2>2, <5>1, PutCells
        <4>2. CASE v.cursor + 1 = Size /\ w.cursor = (ROWS - 1) * COLS
          <5>1. j + COLS = v.cursor /\ v.cursor + 1 \notin Cells
            <6>1. PICK r : r = (ROWS - 1) * COLS
              OBVIOUS
            <6>2. Size \in Nat /\ COLS \in Nat /\ r \in Nat /\ Size = r + COLS /\ v.cursor \in Nat
              BY <1>1, <6>1, SizeFacts DEF Cells
            <6>3. w.cursor = r
              BY <4>2, <6>1
            <6> QED
              BY <3>1, <4>2, <6>2, <6>3 DEF Cells
          <5> QED
            BY <1>4, <2>2, <5>1, PutCells
        <4> QED
          BY <1>4, <4>1, <4>2, PutCells
      <3> QED
        BY <1>6, <2>1, <2>3, <3>2
    <2>4. CASE k # n + 1
      <3>1. k \in 1 .. n /\ s[k] = t[k] /\ v.cells[v.cursor - n + k - 1] = t[k]
        BY <1>3, <1>6, <1>7, <2>4
      <3>2. j < w.cursor - 1
        BY <1>3, <1>8, <2>1, <3>1
      <3>3. CASE w.cursor = v.cursor + 1
        <4>1. j = v.cursor - n + k - 1 /\ j # v.cursor
          BY <1>1, <1>3, <2>1, <3>1, <3>3
        <4>2. v.cursor + 1 # Size
          BY <1>8, <3>3, SizeFacts DEF Screens, Cells
        <4>3. w.cells[j] = v.cells[j]
          BY <1>4, <2>2, <4>1, <4>2, PutCells
        <4> QED
          BY <2>1, <3>1, <4>1, <4>3
      <3>4. CASE w.cursor # v.cursor + 1
        <4>1. /\ v.cursor + 1 = Size /\ w.cursor = (ROWS - 1) * COLS
              /\ w.cells[j] = IF j + COLS = v.cursor THEN c ELSE v.cells[j + COLS]
          BY <1>4, <2>2, <3>4, PutCells
        <4>2. j + COLS = v.cursor - n + k - 1 /\ j + COLS # v.cursor
          BY <1>1, <1>3, <2>1, <3>1, <4>1, SizeFacts
        <4> QED
          BY <2>1, <3>1, <4>1, <4>2
      <3> QED
        BY <3>3, <3>4
    <2> QED
      BY <2>3, <2>4
  <1> QED
    BY <1>4, <1>5, <1>6, <1>9, <1>10 DEF EndsWith

-----------------------------------------------------------------------------
(* A string put out is its characters one after the other.                   *)
LEMMA EchoedIs ==
  ASSUME NEW v \in Screens, NEW s \in Seq(Chars)
  PROVE  \E f \in [0 .. Len(s) -> Screens] :
           /\ f[0] = v /\ \A n \in 1 .. Len(s) : f[n] = VgaPutc(f[n - 1], s[n])
           /\ Echoed(v, s) = f[Len(s)]
  <1> DEFINE N == Len(s)
             Is(f) == f = [n \in 0 .. N |-> IF n = 0 THEN v ELSE VgaPutc(f[n - 1], s[n])]
             after == CHOOSE f : Is(f)
             G == [n \in 1 .. N |-> [u \in Screens |-> VgaPutc(u, s[n])]]
  <1>1. N \in Nat /\ \A n \in 1 .. N : s[n] \in Chars
    OBVIOUS
  <1>2. G \in [1 .. N -> [Screens -> Screens]]
    BY <1>1, PutType
  <1>3. \A n \in 1 .. N, u \in Screens : G[n][u] = VgaPutc(u, s[n])
    OBVIOUS
  <1> HIDE DEF G
  <1>4. PICK f \in [0 .. N -> Screens] : Links(f, N, v, G)
    BY <1>1, <1>2, ChainExists
  <1>5. f[0] = v /\ \A n \in 1 .. N : f[n] = VgaPutc(f[n - 1], s[n])
    <2>1. \A n \in 1 .. N : n - 1 \in 0 .. N
      BY <1>1
    <2> QED
      BY <1>3, <1>4, <2>1 DEF Links
  <1>6. Is(f)
    <2>1. ASSUME NEW n \in 0 .. N PROVE f[n] = IF n = 0 THEN v ELSE VgaPutc(f[n - 1], s[n])
      <3>1. n # 0 => n \in 1 .. N
        BY <1>1
      <3> QED
        BY <1>5, <3>1
    <2> QED
      BY <2>1
  <1>7. Is(after)
    BY <1>6
  <1>8. Echoed(v, s) = after[N]
    BY DEF Echoed
  <1> HIDE DEF after
  <1>9. after[0] = v /\ \A n \in 1 .. N : after[n] = VgaPutc(after[n - 1], s[n])
    BY <1>1, <1>7
  <1>10. Follows(after, N, v, G, Screens)
    BY <1>3, <1>9 DEF Follows
  <1> HIDE DEF Is, N
  <1>11. \A n \in 0 .. N : after[n] = f[n]
    <2>1. Chained(f, N, v, G, Screens)
      BY <1>4 DEF Chained
    <2>2. Agree(after, f, N)
      BY <1>1, <1>10, <2>1, ChainOnly, Zenon
    <2> QED
      BY <2>2 DEF Agree
  <1> QED
    BY <1>1, <1>5, <1>8, <1>11 DEF N

LEMMA EchoedBlank ==
  ASSUME NEW v \in Screens, Blank(v), NEW s \in Seq(Shown \union {NL})
  PROVE  Echoed(v, s) \in Screens /\ Blank(Echoed(v, s))
  <1>1. s \in Seq(Chars) /\ Len(s) \in Nat /\ \A n \in 1 .. Len(s) : s[n] \in Shown \union {NL}
    BY DEF Chars
  <1>2. PICK f \in [0 .. Len(s) -> Screens] :
             /\ f[0] = v /\ \A n \in 1 .. Len(s) : f[n] = VgaPutc(f[n - 1], s[n])
             /\ Echoed(v, s) = f[Len(s)]
    BY <1>1, EchoedIs
  <1> DEFINE S == {n \in 0 .. Len(s) : Blank(f[n])}
  <1>3. 0 \in S
    BY <1>1, <1>2
  <1>4. ASSUME NEW n \in 1 .. Len(s), n - 1 \in S PROVE n \in S
    <2>1. n \in 0 .. Len(s) /\ n - 1 \in 0 .. Len(s) /\ f[n - 1] \in Screens /\ Blank(f[n - 1])
      BY <1>1, <1>4
    <2>2. Blank(VgaPutc(f[n - 1], s[n]))
      BY <1>1, <2>1, PutBlank
    <2> QED
      BY <1>2, <2>1, <2>2
  <1>5. \A n \in 0 .. Len(s) : n \in S
    <2> HIDE DEF S
    <2> QED
      BY <1>1, <1>3, <1>4, Counting
  <1>6. Len(s) \in 0 .. Len(s)
    BY <1>1
  <1> QED
    BY <1>2, <1>5, <1>6

LEMMA EchoedEnds ==
  ASSUME NEW v \in Screens, NEW t \in Texts, EndsWith(v, t), NEW s \in Texts,
         Len(t) + Len(s) <= (ROWS - 1) * COLS
  PROVE  EndsWith(Echoed(v, s), t \o s)
  <1> DEFINE p(n) == t \o SubSeq(s, 1, n)
  <1>1. s \in Seq(Chars) /\ Len(s) \in Nat /\ Len(t) \in Nat /\ \A n \in 1 .. Len(s) : s[n] \in Shown
    BY DEF Chars, Texts
  <1>2. PICK f \in [0 .. Len(s) -> Screens] :
             /\ f[0] = v /\ \A n \in 1 .. Len(s) : f[n] = VgaPutc(f[n - 1], s[n])
             /\ Echoed(v, s) = f[Len(s)]
    BY <1>1, EchoedIs
  <1>3. ASSUME NEW n \in 0 .. Len(s)
        PROVE  /\ p(n) \in Texts /\ Len(p(n)) = Len(t) + n
               /\ n \in 1 .. Len(s) => p(n) = Append(p(n - 1), s[n])
               /\ p(0) = t /\ p(Len(s)) = t \o s
    <2>1. n \in Nat /\ SubSeq(s, 1, n) \in Texts /\ Len(SubSeq(s, 1, n)) = n
      BY <1>1 DEF Texts
    <2>2. p(n) \in Texts /\ Len(p(n)) = Len(t) + n
      BY <1>1, <2>1 DEF Texts
    <2>3. p(0) = t /\ p(Len(s)) = t \o s
      BY <1>1 DEF Texts
    <2>4. ASSUME n \in 1 .. Len(s) PROVE p(n) = Append(p(n - 1), s[n])
      <3>1. n - 1 \in 0 .. Len(s) /\ s[n] \in Shown
        BY <1>1, <2>4
      <3>2. SubSeq(s, 1, n) = Append(SubSeq(s, 1, n - 1), s[n])
        BY <1>1, <2>4, <3>1 DEF Texts
      <3>3. SubSeq(s, 1, n - 1) \in Texts
        BY <1>1, <3>1 DEF Texts
      <3>4. \A a, b \in Texts, c \in Shown : a \o Append(b, c) = Append(a \o b, c)
        BY DEF Texts
      <3> QED
        BY <1>1, <3>1, <3>2, <3>3, <3>4
    <2> QED
      BY <2>2, <2>3, <2>4
  <1> HIDE DEF p
  <1> DEFINE S == {n \in 0 .. Len(s) : EndsWith(f[n], p(n))}
  <1>4. 0 \in S
    BY <1>1, <1>2, <1>3
  <1>5. ASSUME NEW n \in 1 .. Len(s), n - 1 \in S PROVE n \in S
    <2>1. n \in 0 .. Len(s) /\ n - 1 \in 0 .. Len(s) /\ f[n - 1] \in Screens /\ EndsWith(f[n - 1], p(n - 1))
      BY <1>1, <1>5
    <2>2. p(n - 1) \in Texts /\ Len(p(n - 1)) < (ROWS - 1) * COLS
      BY <1>1, <1>3, <2>1, SizeFacts
    <2>3. EndsWith(VgaPutc(f[n - 1], s[n]), Append(p(n - 1), s[n]))
      BY <1>1, <2>1, <2>2, PutEnds
    <2> QED
      BY <1>2, <1>3, <2>1, <2>3
  <1>6. \A n \in 0 .. Len(s) : n \in S
    <2> HIDE DEF S
    <2> QED
      BY <1>1, <1>4, <1>5, Counting
  <1>7. Len(s) \in 0 .. Len(s)
    BY <1>1
  <1> QED
    BY <1>2, <1>3, <1>6, <1>7

(* The three characters put out for a backspace take the last one off.       *)
LEMMA Erased ==
  ASSUME NEW v \in Screens, Blank(v), NEW t \in Texts, t # <<>>, EndsWith(v, t),
         NEW w, w = Echoed(v, EraseEcho)
  PROVE  /\ w \in Screens /\ Blank(w)
         /\ EndsWith(w, SubSeq(t, 1, Len(t) - 1))
  <1>1. EraseEcho = <<BS, Space, BS>> /\ EraseEcho \in Seq(Chars) /\ Len(EraseEcho) = 3
    BY DEF EraseEcho, Chars, Shown
  <1>2. PICK f \in [0 .. 3 -> Screens] :
             /\ f[0] = v /\ \A n \in 1 .. 3 : f[n] = VgaPutc(f[n - 1], EraseEcho[n])
             /\ w = f[3]
    <2>1. \E f \in [0 .. Len(EraseEcho) -> Screens] :
             /\ f[0] = v /\ \A n \in 1 .. Len(EraseEcho) : f[n] = VgaPutc(f[n - 1], EraseEcho[n])
             /\ Echoed(v, EraseEcho) = f[Len(EraseEcho)]
      BY <1>1, EchoedIs
    <2> QED
      BY <1>1, <2>1
  <1>3. f[1] = VgaPutc(v, BS) /\ f[2] = VgaPutc(f[1], Space) /\ w = VgaPutc(f[2], BS)
    BY <1>1, <1>2
  <1>4. v.cells \in [Cells -> Shown] /\ v.cursor \in Cells /\ v.cursor \in Nat
    BY DEF Screens, Cells
  <1>5. Len(t) \in Nat \ {0} /\ v.cursor > 0
    BY <1>4 DEF EndsWith, Texts
  <1>6. ASSUME NEW u \in Screens, u.cursor > 0
        PROVE  VgaPutc(u, BS).cells = u.cells /\ VgaPutc(u, BS).cursor = u.cursor - 1
    <2>1. BS \notin Shown /\ BS # NL
      BY VgaAssumption DEF Shown
    <2>2. u.cells \in [Cells -> Shown] /\ u.cursor \in Cells
      BY DEF Screens
    <2>3. [u EXCEPT !.cells = Stored(@, u.cursor, BS)] = u
      BY <2>1, <2>2 DEF Stored, Screens
    <2>4. Moved(u.cursor, BS) = u.cursor - 1
      BY <1>6, <2>1 DEF Moved
    <2>5. ~(u.cursor - 1 >= Size)
      BY <1>6, <2>2, SizeFacts DEF Cells
    <2>6. VgaPutc(u, BS) = [u EXCEPT !.cursor = u.cursor - 1]
      BY <2>3, <2>4, <2>5 DEF VgaPutc, Advanced
    <2> QED
      BY <2>6 DEF Screens
  <1>7. f[1] \in Screens /\ f[2] \in Screens /\ f[1].cells = v.cells /\ f[1].cursor = v.cursor - 1
    BY <1>2, <1>3, <1>5, <1>6
  <1>8. /\ f[2].cursor = v.cursor
        /\ \A k \in Cells : f[2].cells[k] = IF k = v.cursor - 1 THEN Space ELSE v.cells[k]
    <2>1. f[1].cursor + 1 = v.cursor /\ v.cursor # Size
      <3>1. v.cursor <= Size - 1
        BY <1>4, SizeFacts DEF Cells
      <3>2. f[1].cursor + 1 = v.cursor
        BY <1>4, <1>7
      <3> QED
        BY <1>4, <3>1, <3>2, SizeFacts
    <2>2. Space \in Shown
      BY DEF Shown
    <2>3. PICK u : u = f[2]
      OBVIOUS
    <2>4. /\ u.cursor = f[1].cursor + 1
          /\ \A k \in Cells : u.cells[k] = IF k = f[1].cursor THEN Space ELSE f[1].cells[k]
      BY <1>3, <1>7, <2>1, <2>2, <2>3, PutCells
    <2> QED
      BY <1>7, <2>1, <2>3, <2>4
  <1>9. /\ w.cursor = v.cursor - 1
        /\ \A k \in Cells : w.cells[k] = IF k = v.cursor - 1 THEN Space ELSE v.cells[k]
    BY <1>3, <1>5, <1>6, <1>7, <1>8
  <1>10. w \in Screens
    BY <1>2
  <1>11. Blank(w)
    <2>1. ASSUME NEW k \in Cells, k >= v.cursor - 1 PROVE w.cells[k] = Space
      <3>1. k = v.cursor - 1 \/ k >= v.cursor
        BY <1>4, <2>1 DEF Cells
      <3> QED
        BY <1>9, <3>1 DEF Blank
    <2> QED
      BY <1>9, <2>1 DEF Blank
  <1>12. EndsWith(w, SubSeq(t, 1, Len(t) - 1))
    <2> DEFINE s == SubSeq(t, 1, Len(t) - 1)
    <2>1. Len(s) = Len(t) - 1 /\ \A k \in 1 .. Len(t) - 1 : s[k] = t[k]
      <3>1. t \in Seq(Shown) /\ Len(t) - 1 \in 0 .. Len(t)
        BY <1>5 DEF Texts
      <3>2. \A k \in 1 .. Len(t) - 1 : k \in 1 .. Len(t)
        BY <1>5
      <3>3. \A m \in 0 .. Len(t) : Len(SubSeq(t, 1, m)) = m
        BY <3>1
      <3>4. \A k \in 1 .. Len(t) - 1 : SubSeq(t, 1, Len(t) - 1)[k] = t[k]
        BY <3>1, <3>2
      <3> QED
        BY <3>1, <3>3, <3>4
    <2> HIDE DEF s
    <2>2. Len(s) <= w.cursor
      BY <1>4, <1>5, <1>9, <2>1 DEF EndsWith
    <2>3. ASSUME NEW k \in 1 .. Len(s) PROVE w.cells[w.cursor - Len(s) + k - 1] = s[k]
      <3>1. k \in 1 .. Len(t) - 1 /\ k \in 1 .. Len(t) /\ k \in Nat
        BY <1>5, <2>1
      <3>2. w.cursor - Len(s) + k - 1 = v.cursor - Len(t) + k - 1
        BY <1>4, <1>5, <1>9, <2>1, <3>1
      <3>3. Len(t) <= v.cursor /\ v.cells[v.cursor - Len(t) + k - 1] = t[k]
        BY <3>1 DEF EndsWith
      <3>4. v.cursor - Len(t) + k - 1 \in Cells /\ v.cursor - Len(t) + k - 1 # v.cursor - 1
        <4>1. Size \in Nat /\ v.cursor \in Nat /\ v.cursor \in Cells /\ Len(t) \in Nat
          BY <1>4, <1>5, SizeFacts DEF Cells
        <4>2. PICK j : j = v.cursor - Len(t) + k - 1
          OBVIOUS
        <4>3. j \in Nat /\ j < v.cursor - 1
          BY <3>1, <3>3, <4>1, <4>2
        <4> QED
          BY <4>1, <4>2, <4>3 DEF Cells
      <3> QED
        BY <1>9, <2>1, <3>1, <3>2, <3>3, <3>4
    <2> QED
      BY <2>2, <2>3 DEF EndsWith, s
  <1> QED
    BY <1>10, <1>11, <1>12

-----------------------------------------------------------------------------
(* The line of the editor: the text, then NULs to the end of the array.      *)
Cell == Shown \union {NUL}
Lines == {s \in Texts : Len(s) < LINE_MAX}
LineOf(s) == [k \in Places |-> IF k < Len(s) THEN s[k + 1] ELSE NUL]

LEMMA LineFacts ==
  /\ NUL \notin Shown /\ Space \in Shown /\ LINE_MAX \in Nat \ {0} /\ SHELL_MAX_ARGS \in Nat
  /\ \A k \in Places : k \in Nat
  /\ \A n \in Nat : n < LINE_MAX => n \in Places
  BY LineTextAssumption DEF Chars, Shown, Places

LEMMA MinIs ==
  ASSUME NEW S, S \subseteq Nat, NEW m \in S, \A k \in S : m <= k
  PROVE  Min(S) = m
  <1>1. \A j \in S : (\A k \in S : j <= k) => j = m
    OBVIOUS
  <1> QED
    BY <1>1 DEF Min

LEMMA MinOfTwo ==
  ASSUME NEW a \in Nat, NEW b \in Nat
  PROVE  Min({a, b}) = IF a <= b THEN a ELSE b
  <1>1. PICK m, S : m = (IF a <= b THEN a ELSE b) /\ S = {a, b}
    OBVIOUS
  <1>2. S \subseteq Nat /\ m \in S /\ \A k \in S : m <= k
    BY <1>1
  <1>3. Min(S) = m
    BY <1>2, MinIs
  <1> QED
    BY <1>1, <1>3

LEMMA MaxIs ==
  ASSUME NEW S, S \subseteq Nat, NEW m \in S, \A k \in S : m >= k
  PROVE  Max(S) = m
  <1>1. \A j \in S : (\A k \in S : j >= k) => j = m
    OBVIOUS
  <1> QED
    BY <1>1 DEF Max

LEMMA LineOfType ==
  ASSUME NEW s \in Lines
  PROVE  /\ LineOf(s) \in [Places -> Cell] /\ Len(s) \in Nat /\ Len(s) \in Places
         /\ \A k \in Places : k < Len(s) => k + 1 \in 1 .. Len(s) /\ s[k + 1] \in Shown
  <1>1. s \in Seq(Shown) /\ Len(s) \in Nat /\ Len(s) < LINE_MAX
    BY DEF Lines, Texts
  <1>2. ASSUME NEW k \in Places, k < Len(s) PROVE k + 1 \in 1 .. Len(s) /\ s[k + 1] \in Shown
    <2>1. k + 1 \in 1 .. Len(s)
      BY <1>1, <1>2, LineFacts
    <2> QED
      BY <1>1, <2>1
  <1> QED
    BY <1>1, <1>2, LineFacts DEF LineOf, Cell

LEMMA SubSeqIs ==
  ASSUME NEW A, NEW q \in Seq(A), NEW m \in Nat \ {0}, NEW n \in Nat, m <= n + 1, n <= Len(q)
  PROVE  /\ SubSeq(q, m, n) = [k \in 1 .. n + 1 - m |-> q[m + k - 1]]
         /\ SubSeq(q, m, n) \in Seq(A) /\ Len(SubSeq(q, m, n)) = n + 1 - m
  <1>1. \A i \in m .. n : q[i] \in A
    OBVIOUS
  <1>2. PICK u : u = SubSeq(q, m, n)
    OBVIOUS
  <1>3. u \in Seq(A) /\ Len(u) = (IF m <= n THEN n-m+1 ELSE 0) /\ \A i \in 1 .. n-m+1 : u[i] = q[m+i-1]
    BY <1>1, <1>2, SubSeqProperties, m \in Int, n \in Int
  <1>4. Len(u) = n + 1 - m /\ n - m + 1 = n + 1 - m
    BY <1>3
  <1>5. u = [k \in 1 .. Len(u) |-> u[k]]
    BY <1>3
  <1> QED
    BY <1>2, <1>3, <1>4, <1>5

(* A string ends at the first NUL.                                           *)
LEMMA StringAtIs ==
  ASSUME NEW b, NEW a \in Places, NEW e \in Places, a <= e, b[e] = NUL,
         \A k \in a .. e - 1 : b[k] \in Shown
  PROVE  StringAt(b, a) = [k \in 1 .. e - a |-> b[a + k - 1]]
  <1> DEFINE S == {k \in Places : k >= a /\ b[k] \in {NUL}}
  <1>1. S \subseteq Nat /\ e \in S /\ a \in Nat /\ e \in Nat
    BY LineFacts
  <1>2. ASSUME NEW k \in S PROVE e <= k
    <2>1. k \in Nat /\ k >= a /\ b[k] \notin Shown
      BY LineFacts
    <2> QED
      BY <1>1, <2>1
  <1> HIDE DEF S
  <1>3. Min(S) = e
    BY <1>1, <1>2, MinIs
  <1>4. FirstFrom(b, a, {NUL}) = e
    BY <1>3 DEF FirstFrom, S
  <1> QED
    BY <1>4 DEF StringAt

LEMMA LineIs ==
  ASSUME NEW s \in Lines
  PROVE  StringAt(LineOf(s), 0) = s
  <1>1. s \in Seq(Shown) /\ Len(s) \in Nat /\ Len(s) \in Places /\ 0 \in Places
    BY LineFacts, LineOfType DEF Lines, Texts
  <1>2. LineOf(s)[Len(s)] = NUL
    BY <1>1 DEF LineOf
  <1>3. ASSUME NEW k \in 0 .. Len(s) - 1 PROVE LineOf(s)[k] = s[k + 1] /\ s[k + 1] \in Shown
    <2>1. k \in Places /\ k < Len(s)
      BY <1>1, LineFacts DEF Places
    <2> QED
      BY <2>1, LineOfType DEF LineOf
  <1>4. StringAt(LineOf(s), 0) = [k \in 1 .. Len(s) - 0 |-> LineOf(s)[0 + k - 1]]
    BY <1>1, <1>2, <1>3, StringAtIs
  <1>5. ASSUME NEW k \in 1 .. Len(s) PROVE LineOf(s)[0 + k - 1] = s[k]
    <2>1. 0 + k - 1 \in 0 .. Len(s) - 1 /\ (0 + k - 1) + 1 = k
      BY <1>1
    <2> QED
      BY <1>3, <2>1
  <1>6. Len(s) - 0 = Len(s)
    BY <1>1
  <1>7. s = [k \in 1 .. Len(s) |-> s[k]]
    BY <1>1
  <1> QED
    BY <1>4, <1>5, <1>6, <1>7

-----------------------------------------------------------------------------
(* Words, with a name for each part of the definition.                       *)
Begins(s) == {i \in DOMAIN s : s[i] # Space /\ (i = 1 \/ s[i - 1] = Space)}
EndOf(s, i) == Max({j \in i .. Len(s) : \A k \in i .. j : s[k] # Space})
Nth(s, k) == CHOOSE i \in Begins(s) : Cardinality({j \in Begins(s) : j <= i}) = k

LEMMA FunctionIsSeq ==
  ASSUME NEW N \in Nat, NEW u, DOMAIN u = 1 .. N, u = [k \in 1 .. N |-> u[k]]
  PROVE  Len(u) = N /\ u \in Seq(Range(u))
  <1>1. u \in [1 .. N -> Range(u)]
    BY DEF Range
  <1> QED
    BY <1>1

LEMMA WordsAre ==
  ASSUME NEW s
  PROVE  Words(s) = [k \in 1 .. Cardinality(Begins(s)) |-> SubSeq(s, Nth(s, k), EndOf(s, Nth(s, k)))]
  BY Zenon DEF Words, Begins, EndOf, Nth

LEMMA BeginsType ==
  ASSUME NEW s \in Texts
  PROVE  /\ Begins(s) \subseteq 1 .. Len(s) /\ Begins(s) \subseteq Nat /\ IsFiniteSet(Begins(s))
         /\ Cardinality(Begins(s)) \in Nat
  <1>1. Len(s) \in Nat /\ DOMAIN s = 1 .. Len(s) /\ IsFiniteSet(1 .. Len(s))
    BY FS_Interval DEF Texts
  <1>2. Begins(s) \subseteq 1 .. Len(s)
    BY <1>1 DEF Begins
  <1>3. IsFiniteSet(Begins(s))
    BY <1>1, <1>2, FS_Subset
  <1> QED
    BY <1>1, <1>2, <1>3, FS_CardinalityType

(* Where a word that begins at i ends.                                       *)
LEMMA EndIs ==
  ASSUME NEW s \in Texts, NEW i \in 1 .. Len(s), NEW e \in i .. Len(s),
         \A k \in i .. e : s[k] # Space, e = Len(s) \/ s[e + 1] = Space
  PROVE  EndOf(s, i) = e
  <1> DEFINE S == {j \in i .. Len(s) : \A k \in i .. j : s[k] # Space}
  <1>1. Len(s) \in Nat /\ i \in Nat /\ e \in Nat
    BY DEF Texts
  <1>2. S \subseteq Nat /\ e \in S
    BY <1>1
  <1>3. ASSUME NEW j \in S PROVE e >= j
    <2>1. SUFFICES ASSUME ~(e >= j) PROVE FALSE
      OBVIOUS
    <2>2. e + 1 \in i .. j /\ e # Len(s)
      BY <1>1, <2>1
    <2> QED
      BY <2>2
  <1> HIDE DEF S
  <1>4. Max(S) = e
    BY <1>2, <1>3, MaxIs
  <1> QED
    BY <1>4 DEF EndOf, S

(* Places of a line p that pick out its first words, one after the other.    *)
Picks(s, p, n) ==
  /\ p \in [1 .. n -> Begins(s)]
  /\ \A a, b \in 1 .. n : a < b => p[a] < p[b]
  /\ \A a \in 1 .. n, j \in Begins(s) : j <= p[a] => \E b \in 1 .. n : p[b] = j

LEMMA PicksNth ==
  ASSUME NEW s \in Texts, NEW n \in Nat, NEW p, Picks(s, p, n), NEW a \in 1 .. n
  PROVE  Nth(s, a) = p[a]
  <1> DEFINE U(i) == {j \in Begins(s) : j <= i}
  <1>1. p[a] \in Begins(s) /\ a \in Nat
    BY DEF Picks
  <1>2. \A i \in Begins(s) : i \in Nat
    BY BeginsType
  <1>3. \A i : IsFiniteSet(U(i)) /\ U(i) \in SUBSET Begins(s)
    <2> TAKE i
    <2>1. U(i) \in SUBSET Begins(s)
      OBVIOUS
    <2> HIDE DEF U
    <2> QED
      BY <2>1, BeginsType, FS_Subset
  <1>4. Cardinality(U(p[a])) = a
    <2> DEFINE f == [b \in 1 .. a |-> p[b]]
    <2>1. ASSUME NEW b \in 1 .. a PROVE b \in 1 .. n /\ p[b] \in U(p[a])
      <3>1. b \in 1 .. n /\ p[b] \in Begins(s) /\ (b < a => p[b] < p[a]) /\ (b = a \/ b < a)
        BY <1>1, <2>1 DEF Picks
      <3> QED
        BY <1>1, <1>2, <3>1
    <2>2. ASSUME NEW j \in U(p[a]) PROVE \E b \in 1 .. a : p[b] = j
      <3>1. PICK b \in 1 .. n : p[b] = j
        BY DEF Picks
      <3>2. ~(a < b)
        <4>1. a < b => p[a] < p[b]
          BY <3>1 DEF Picks
        <4> QED
          BY <1>1, <1>2, <3>1, <4>1
      <3>3. b \in 1 .. a
        BY <1>1, <3>2
      <3> QED
        BY <3>1, <3>3
    <2>3. ASSUME NEW b \in 1 .. a, NEW c \in 1 .. a, b # c PROVE p[b] # p[c]
      <3>1. (b < c \/ c < b) /\ b \in 1 .. n /\ c \in 1 .. n
        BY <1>1, <2>1, <2>3
      <3>2. p[b] < p[c] \/ p[c] < p[b]
        BY <3>1 DEF Picks
      <3>3. p[b] \in Nat /\ p[c] \in Nat
        BY <1>2, <3>1 DEF Picks
      <3> QED
        BY <3>2, <3>3
    <2>4. f \in Bijection(1 .. a, U(p[a]))
      <3> HIDE DEF U
      <3>1. f \in [1 .. a -> U(p[a])]
        BY <2>1
      <3>2. \A j \in U(p[a]) : \E b \in 1 .. a : f[b] = j
        BY <2>2
      <3>3. \A b, c \in 1 .. a : f[b] = f[c] => b = c
        BY <2>3
      <3> QED
        BY <3>1, <3>2, <3>3 DEF Bijection, Injection, Surjection, IsInjective
    <2>5. IsFiniteSet(1 .. a) /\ Cardinality(1 .. a) = a
      BY <1>1, FS_Interval
    <2>6. ExistsBijection(1 .. a, U(p[a]))
      BY <2>4 DEF ExistsBijection
    <2> HIDE DEF U
    <2> QED
      BY <2>5, <2>6, FS_Bijection
  <1>5. ASSUME NEW i \in Begins(s), Cardinality(U(i)) = a PROVE i = p[a]
    <2>1. \A x, y \in Begins(s) : (x <= y /\ Cardinality(U(x)) = Cardinality(U(y))) => x = y
      <3> SUFFICES ASSUME NEW x \in Begins(s), NEW y \in Begins(s), x <= y,
                          Cardinality(U(x)) = Cardinality(U(y))
                   PROVE  x = y
        OBVIOUS
      <3>1. x \in Nat /\ y \in Nat
        BY <1>2
      <3>2. U(x) \subseteq U(y)
        <4>1. \A j \in Begins(s) : j <= x => j <= y
          BY <1>2, <3>1
        <4> QED
          BY <4>1
      <3>3. U(y) = U(x)
        <4> HIDE DEF U
        <4> QED
          BY <1>3, <3>2, FS_Subset
      <3>4. y \in U(y)
        BY <3>1
      <3>5. y \in U(x)
        BY <3>3, <3>4
      <3> QED
        BY <3>1, <3>5
    <2>2. i <= p[a] \/ p[a] <= i
      BY <1>1, <1>2
    <2> QED
      BY <1>1, <1>4, <1>5, <2>1, <2>2
  <1>6. Nth(s, a) = CHOOSE i \in Begins(s) : Cardinality(U(i)) = a
    BY DEF Nth
  <1> HIDE DEF U
  <1> QED
    BY <1>1, <1>4, <1>5, <1>6

(* They are the first words; if no word begins elsewhere, all of them.       *)
Picked(s, p, n) ==
  /\ n <= Cardinality(Begins(s))
  /\ \A a \in 1 .. n : Words(s)[a] = SubSeq(s, p[a], EndOf(s, p[a]))
  /\ (\A j \in Begins(s) : \E a \in 1 .. n : p[a] = j) => n = Cardinality(Begins(s))

LEMMA PicksWords ==
  ASSUME NEW s \in Texts, NEW n \in Nat, NEW p, Picks(s, p, n)
  PROVE  Picked(s, p, n)
  <1>1. IsFiniteSet(1 .. n) /\ Cardinality(1 .. n) = n
    BY FS_Interval
  <1>2. ASSUME NEW b \in 1 .. n, NEW c \in 1 .. n, p[b] = p[c] PROVE b = c
    <2>1. p[b] \in Nat /\ p[c] \in Nat
      BY BeginsType DEF Picks
    <2>2. ~(b < c) /\ ~(c < b)
      BY <1>2, <2>1 DEF Picks
    <2> QED
      BY <2>2
  <1>3. p \in Injection(1 .. n, Begins(s))
    BY <1>2 DEF Picks, Injection, IsInjective
  <1>4. n <= Cardinality(Begins(s))
    BY <1>1, <1>3, BeginsType, FS_Injection
  <1>5. ASSUME \A j \in Begins(s) : \E a \in 1 .. n : p[a] = j PROVE n = Cardinality(Begins(s))
    <2>1. p \in Surjection(1 .. n, Begins(s))
      BY <1>5 DEF Picks, Surjection
    <2> QED
      BY <1>1, <1>3, <2>1, BeginsType, FS_Injection
  <1>6. ASSUME NEW a \in 1 .. n PROVE Words(s)[a] = SubSeq(s, p[a], EndOf(s, p[a]))
    <2>1. a \in 1 .. Cardinality(Begins(s))
      BY <1>4, BeginsType
    <2>2. Nth(s, a) = p[a]
      BY PicksNth
    <2> QED
      BY <2>1, <2>2, WordsAre
  <1> QED
    BY <1>4, <1>5, <1>6 DEF Picked

-----------------------------------------------------------------------------
(* Splitting, a turn at a time.  The word at place a of the array: the text  *)
(* of the line from there to the end of the word, then a NUL.                *)
WordAt(s, b, a) ==
  LET e == EndOf(s, a + 1)
  IN  /\ a + 1 \in Begins(s) /\ e \in a + 1 .. Len(s)
      /\ b[e] = NUL /\ \A k \in a .. e - 1 : b[k] = s[k + 1]

Splits == [buf : [Places -> Cell], argv : Seq(Places), l : Places, more : BOOLEAN]

(* argv has the first words, in order, and nothing else.                     *)
InOrder(s, argv) ==
  /\ \A a, b \in 1 .. Len(argv) : a < b => argv[a] < argv[b]
  /\ \A a \in 1 .. Len(argv), j \in Begins(s) :
       j <= argv[a] + 1 => \E b \in 1 .. Len(argv) : argv[b] + 1 = j

Covered(s, argv, j) == \E a \in 1 .. Len(argv) : argv[a] + 1 = j

Splitting(s, r) ==
  /\ \A k \in Places : k >= r.l => r.buf[k] = LineOf(s)[k]
  /\ Len(r.argv) <= SHELL_MAX_ARGS
  /\ \A a \in 1 .. Len(r.argv) : WordAt(s, r.buf, r.argv[a])
  /\ InOrder(s, r.argv)
  /\ r.more => /\ r.l <= Len(s) /\ (r.l = 0 \/ s[r.l] = Space)
               /\ \A a \in 1 .. Len(r.argv) : EndOf(s, r.argv[a] + 1) < r.l
               /\ \A j \in Begins(s) : j <= r.l => Covered(s, r.argv, j)
  /\ ~r.more => Len(r.argv) = SHELL_MAX_ARGS \/ \A j \in Begins(s) : Covered(s, r.argv, j)

(* Where a turn finds its word, and where that ends.                         *)
Found(s, r, w, e) ==
  /\ w \in r.l .. Len(s) /\ \A k \in r.l .. w - 1 : s[k + 1] = Space
  /\ w = Len(s) => r.buf[w] = NUL
  /\ w < Len(s) =>
       /\ r.buf[w] # NUL /\ w + 1 \in Begins(s) /\ e \in w + 1 .. Len(s)
       /\ \A k \in w .. e - 1 : r.buf[k] = s[k + 1] /\ s[k + 1] # Space
       /\ e = Len(s) => r.buf[e] = NUL
       /\ e < Len(s) => r.buf[e] # NUL /\ s[e + 1] = Space
       /\ EndOf(s, w + 1) = e

LEMMA TurnLooks ==
  ASSUME NEW s \in Lines, NEW r \in Splits, NEW w \in Nat, NEW e \in Nat, NEW l \in Nat, l = r.l,
         l <= Len(s), l = 0 \/ s[l] = Space,
         \A k \in Nat : k >= l /\ k < Len(s) =>
           r.buf[k] = s[k + 1] /\ s[k + 1] \in Shown /\ k + 1 \in 1 .. Len(s),
         r.buf[Len(s)] = NUL,
         l <= w, w <= Len(s), r.buf[w] # Space, \A k \in l .. w - 1 : r.buf[k] = Space,
         w <= e, e <= Len(s), r.buf[e] \in {Space, NUL},
         \A k \in w .. e - 1 : r.buf[k] \notin {Space, NUL}
  PROVE  Found(s, r, w, e)
  <1>1. s \in Seq(Shown) /\ Len(s) \in Nat /\ DOMAIN s = 1 .. Len(s)
    BY DEF Lines, Texts
  <1>2. NUL \notin Shown /\ NUL # Space
    BY LineFacts
  <1>3. ASSUME NEW k \in l .. w - 1 PROVE s[k + 1] = Space
    <2>1. k \in Nat /\ k >= l /\ k < Len(s)
      BY <1>1
    <2> QED
      BY <1>3, <2>1
  <1>4. w = Len(s) => r.buf[w] = NUL
    OBVIOUS
  <1>5. ASSUME w < Len(s)
        PROVE  /\ r.buf[w] # NUL /\ w + 1 \in Begins(s) /\ e \in w + 1 .. Len(s)
               /\ \A k \in w .. e - 1 : r.buf[k] = s[k + 1] /\ s[k + 1] # Space
               /\ e = Len(s) => r.buf[e] = NUL
               /\ e < Len(s) => r.buf[e] # NUL /\ s[e + 1] = Space
               /\ EndOf(s, w + 1) = e
    <2>1. r.buf[w] = s[w + 1] /\ s[w + 1] \in Shown /\ w + 1 \in 1 .. Len(s) /\ r.buf[w] # NUL
      BY <1>2, <1>5
    <2>2. w + 1 = 1 \/ s[w] = Space
      <3>1. CASE w = l
        BY <3>1
      <3>2. CASE w # l
        <4>1. w - 1 \in l .. w - 1 /\ (w - 1) + 1 = w
          BY <3>2
        <4> QED
          BY <1>3, <4>1
      <3> QED
        BY <3>1, <3>2
    <2>3. w + 1 \in Begins(s)
      <3>1. (w + 1) - 1 = w /\ s[w + 1] # Space
        BY <2>1
      <3> QED
        BY <1>1, <2>1, <2>2, <3>1 DEF Begins
    <2>4. e # w
      BY <2>1
    <2>5. e \in w + 1 .. Len(s)
      BY <1>1, <2>4
    <2>6. ASSUME NEW k \in w .. e - 1 PROVE r.buf[k] = s[k + 1] /\ s[k + 1] # Space
      <3>1. k \in Nat /\ k >= l /\ k < Len(s)
        BY <1>1
      <3>2. r.buf[k] \notin {Space, NUL}
        OBVIOUS
      <3> QED
        BY <3>1, <3>2
    <2>7. e < Len(s) => r.buf[e] # NUL /\ s[e + 1] = Space
      <3>1. e >= l
        OBVIOUS
      <3> QED
        BY <1>2, <3>1
    <2>8. ASSUME NEW k \in w + 1 .. e PROVE s[k] # Space
      <3>1. k - 1 \in w .. e - 1 /\ (k - 1) + 1 = k
        OBVIOUS
      <3> QED
        BY <2>6, <3>1
    <2>9. e = Len(s) \/ s[e + 1] = Space
      <3>1. e = Len(s) \/ e < Len(s)
        BY <1>1
      <3> QED
        BY <2>7, <3>1
    <2>10. EndOf(s, w + 1) = e
      <3>1. s \in Texts
        BY <1>1 DEF Texts
      <3> QED
        BY <2>1, <2>5, <2>8, <2>9, <3>1, EndIs
    <2> QED
      BY <2>1, <2>3, <2>5, <2>6, <2>7, <2>10
  <1>6. w \in l .. Len(s)
    BY <1>1
  <1> QED
    BY <1>3, <1>4, <1>5, <1>6 DEF Found

LEMMA TurnFinds ==
  ASSUME NEW s \in Lines, NEW r \in Splits, Splitting(s, r), r.more,
         NEW word, word = Min({k \in Places : k >= r.l /\ r.buf[k] # Space})
  PROVE  Found(s, r, word, FirstFrom(r.buf, word, {Space, NUL}))
  <1>1. PICK l, n : l = r.l /\ n = Len(s)
    OBVIOUS
  <1>2. /\ l \in Nat /\ n \in Nat /\ n \in Places /\ l <= n /\ (l = 0 \/ s[l] = Space)
        /\ NUL # Space
    BY <1>1, LineFacts, LineOfType DEF Splits, Splitting, Lines, Texts
  <1>3. ASSUME NEW k \in Nat, k >= l, k < n
        PROVE  k \in Places /\ r.buf[k] = s[k + 1] /\ s[k + 1] \in Shown /\ k + 1 \in 1 .. n
    <2>1. k \in Places
      BY <1>2, <1>3, LineFacts DEF Places
    <2> QED
      BY <1>1, <1>3, <2>1, LineOfType DEF Splitting, LineOf
  <1>4. r.buf[n] = NUL
    BY <1>1, <1>2 DEF Splitting, LineOf
  <1> DEFINE S == {k \in Places : k >= l /\ r.buf[k] # Space}
  <1>5. S \subseteq Nat /\ n \in S
    BY <1>2, <1>4, LineFacts
  <1>6. PICK w \in S : \A k \in S : w <= k
    <2> HIDE DEF S
    <2> QED
      BY <1>5, Least
  <1>7. word = w
    <2> HIDE DEF S
    <2>1. Min(S) = w
      BY <1>5, <1>6, MinIs
    <2> QED
      BY <1>1, <2>1 DEF S
  <1>8. w \in Nat /\ l <= w /\ w <= n /\ r.buf[w] # Space
    BY <1>5, <1>6
  <1>9. ASSUME NEW k \in l .. w - 1 PROVE r.buf[k] = Space
    <2>1. k \in Nat /\ k >= l /\ k < n /\ ~(w <= k)
      BY <1>2, <1>8
    <2>2. k \notin S
      BY <1>6, <2>1
    <2> QED
      BY <1>3, <2>1, <2>2
  <1> DEFINE E == {k \in Places : k >= w /\ r.buf[k] \in {Space, NUL}}
  <1>10. E \subseteq Nat /\ n \in E
    BY <1>2, <1>4, <1>8, LineFacts
  <1>11. PICK e \in E : \A k \in E : e <= k
    <2> HIDE DEF E
    <2> QED
      BY <1>10, Least
  <1>12. FirstFrom(r.buf, word, {Space, NUL}) = e
    <2> HIDE DEF E
    <2>1. Min(E) = e
      BY <1>10, <1>11, MinIs
    <2> QED
      BY <1>7, <2>1 DEF E, FirstFrom
  <1>13. e \in Nat /\ w <= e /\ e <= n /\ r.buf[e] \in {Space, NUL}
    BY <1>10, <1>11
  <1>14. ASSUME NEW k \in w .. e - 1 PROVE r.buf[k] \notin {Space, NUL}
    <2>1. k \in Nat /\ k >= w /\ k >= l /\ k < n /\ ~(e <= k)
      BY <1>2, <1>8, <1>13
    <2>2. k \in Places
      BY <1>3, <2>1
    <2> QED
      BY <1>11, <2>1, <2>2
  <1> HIDE DEF S, E
  <1>15. Found(s, r, w, e)
    BY <1>1, <1>2, <1>3, <1>4, <1>8, <1>9, <1>13, <1>14, TurnLooks
  <1> QED
    BY <1>7, <1>12, <1>15

(* What the turn makes of it.                                                *)
Turned(r, w, e) ==
  IF ~r.more \/ r.buf[w] = NUL \/ Len(r.argv) >= SHELL_MAX_ARGS THEN [r EXCEPT !.more = FALSE]
  ELSE IF r.buf[e] = NUL THEN [r EXCEPT !.argv = Append(@, w), !.more = FALSE]
  ELSE [buf |-> [r.buf EXCEPT ![e] = NUL], argv |-> Append(r.argv, w), l |-> e + 1, more |-> TRUE]

LEMMA SplitTurnIs ==
  ASSUME NEW s \in Lines, NEW r \in Splits, Splitting(s, r), r.more
  PROVE  \E w, e : Found(s, r, w, e) /\ SplitTurn(r) = Turned(r, w, e)
  <1> DEFINE word == Min({k \in Places : k >= r.l /\ r.buf[k] # Space})
             end == FirstFrom(r.buf, word, {Space, NUL})
  <1>1. SplitTurn(r) = Turned(r, word, end)
    BY DEF SplitTurn, Turned
  <1>2. Found(s, r, word, end)
    BY TurnFinds
  <1> QED
    BY <1>1, <1>2

(* With the word found, the words up to the end of it are in the array.      *)
LEMMA UpTo ==
  \A n \in Nat : \A a \in 1 .. n + 1 : a \in Nat /\ (a = n + 1 \/ a \in 1 .. n)
  OBVIOUS

LEMMA AppendIs ==
  ASSUME NEW A, NEW q \in Seq(A), NEW x \in A
  PROVE  /\ Append(q, x) \in Seq(A) /\ Len(Append(q, x)) = Len(q) + 1
         /\ Append(q, x)[Len(q) + 1] = x /\ \A a \in 1 .. Len(q) : Append(q, x)[a] = q[a]
  OBVIOUS

LEMMA WordCovered ==
  ASSUME NEW s \in Lines, NEW r \in Splits, Splitting(s, r), r.more,
         NEW w, NEW e, Found(s, r, w, e), w < Len(s),
         NEW j \in Begins(s), j <= e + 1
  PROVE  Covered(s, Append(r.argv, w), j) /\ j <= e
  <1>1. Len(s) \in Nat /\ r.l \in Nat /\ Begins(s) \subseteq 1 .. Len(s)
    BY LineFacts, BeginsType DEF Splits, Lines, Texts
  <1>2. /\ w \in Nat /\ e \in Nat /\ w + 1 <= e /\ e <= Len(s) /\ r.l <= w
        /\ \A k \in r.l .. w - 1 : s[k + 1] = Space
        /\ \A k \in w .. e - 1 : s[k + 1] # Space
        /\ e = Len(s) \/ s[e + 1] = Space
    <2>1. e \in w + 1 .. Len(s) /\ w \in r.l .. Len(s)
      BY DEF Found
    <2>2. w \in Nat /\ e \in Nat /\ w + 1 <= e /\ e <= Len(s) /\ r.l <= w
      BY <1>1, <2>1
    <2>3. e = Len(s) \/ e < Len(s)
      BY <1>1, <2>2
    <2> QED
      BY <2>2, <2>3 DEF Found
  <1>3. w \in Places /\ r.argv \in Seq(Places)
    BY <1>2, LineFacts DEF Splits, Lines
  <1>4. j \in Nat /\ j >= 1 /\ j <= Len(s) /\ s[j] # Space /\ (j = 1 \/ s[j - 1] = Space)
    BY <1>1 DEF Begins
  <1>5. j # e + 1
    BY <1>1, <1>2, <1>4
  <1>6. CASE j <= r.l
    <2>1. PICK a \in 1 .. Len(r.argv) : r.argv[a] + 1 = j
      BY <1>6 DEF Splitting, Covered
    <2>2. a \in 1 .. Len(Append(r.argv, w)) /\ Append(r.argv, w)[a] = r.argv[a]
      BY <1>3, AppendIs
    <2> QED
      BY <1>2, <1>4, <1>5, <2>1, <2>2 DEF Covered
  <1>7. CASE r.l < j /\ j <= w
    <2>1. j - 1 \in r.l .. w - 1 /\ (j - 1) + 1 = j
      BY <1>1, <1>2, <1>4, <1>7
    <2> QED
      BY <1>2, <1>4, <2>1
  <1>8. CASE j = w + 1
    <2>1. PICK a : a = Len(r.argv) + 1
      OBVIOUS
    <2>2. a \in 1 .. Len(Append(r.argv, w)) /\ Append(r.argv, w)[a] = w
      BY <1>3, <2>1, AppendIs
    <2> QED
      BY <1>2, <1>4, <1>5, <1>8, <2>2 DEF Covered
  <1>9. CASE w + 1 < j
    <2>1. j - 2 \in w .. e - 1 /\ (j - 2) + 1 = j - 1 /\ j # 1
      BY <1>2, <1>4, <1>5, <1>9
    <2> QED
      BY <1>2, <1>4, <2>1
  <1> QED
    BY <1>1, <1>2, <1>4, <1>6, <1>7, <1>8, <1>9

LEMMA WordInOrder ==
  ASSUME NEW s \in Lines, NEW r \in Splits, Splitting(s, r), r.more,
         NEW w, NEW e, Found(s, r, w, e), w < Len(s)
  PROVE  InOrder(s, Append(r.argv, w))
  <1> DEFINE n == Len(r.argv)
             q == Append(r.argv, w)
  <1>1. /\ Len(s) \in Nat /\ r.l \in Nat /\ w \in Nat /\ e \in Nat /\ w + 1 <= e /\ r.l <= w
        /\ w \in Places /\ r.argv \in Seq(Places) /\ n \in Nat
    <2>1. Len(s) \in Nat /\ r.l \in Nat /\ r.argv \in Seq(Places)
      BY LineFacts DEF Splits, Lines, Texts
    <2>2. e \in w + 1 .. Len(s) /\ w \in r.l .. Len(s)
      BY DEF Found
    <2>3. w \in Nat /\ e \in Nat /\ w + 1 <= e /\ e <= Len(s) /\ r.l <= w
      BY <2>1, <2>2
    <2>4. w \in Places
      BY <2>3, LineFacts DEF Lines
    <2> QED
      BY <2>1, <2>3, <2>4
  <1>2. Len(q) = n + 1 /\ q[n + 1] = w /\ \A a \in 1 .. n : q[a] = r.argv[a]
    BY <1>1, AppendIs
  <1> HIDE DEF q
  <1>3. ASSUME NEW a \in 1 .. n PROVE r.argv[a] \in Nat /\ r.argv[a] < w
    <2>1. r.argv[a] \in Places
      BY <1>1
    <2>2. r.argv[a] \in Nat
      BY <2>1, LineFacts
    <2>3. PICK x, y : x = r.argv[a] /\ y = EndOf(s, x + 1)
      OBVIOUS
    <2>4. y \in x + 1 .. Len(s) /\ y < r.l
      BY <2>3 DEF Splitting, WordAt
    <2>5. x \in Nat /\ y \in Nat /\ x < w
      BY <1>1, <2>2, <2>3, <2>4
    <2> QED
      BY <2>3, <2>5
  <1>4. ASSUME NEW a \in 1 .. n + 1, NEW b \in 1 .. n + 1, a < b PROVE q[a] < q[b]
    <2>1. a \in 1 .. n
      BY <1>1, <1>4
    <2>2. CASE b = n + 1
      BY <1>2, <1>3, <2>1, <2>2
    <2>3. CASE b # n + 1
      <3>1. b \in 1 .. n
        BY <1>1, <2>3
      <3> QED
        BY <1>2, <1>4, <2>1, <3>1 DEF Splitting, InOrder
    <2> QED
      BY <2>2, <2>3
  <1>5. ASSUME NEW a \in 1 .. n + 1, NEW j \in Begins(s), j <= q[a] + 1
        PROVE  \E b \in 1 .. n + 1 : q[b] + 1 = j
    <2>1. CASE a = n + 1
      <3>1. j \in Nat
        BY <1>1, BeginsType DEF Lines
      <3>2. j <= e + 1
        BY <1>1, <1>2, <1>5, <2>1, <3>1
      <3>3. Covered(s, q, j)
        BY <3>2, WordCovered DEF q
      <3> QED
        BY <1>2, <3>3 DEF Covered
    <2>2. CASE a # n + 1
      <3>1. a \in 1 .. n
        BY <1>1, <2>2, UpTo
      <3>2. PICK b \in 1 .. n : r.argv[b] + 1 = j
        BY <1>2, <1>5, <3>1 DEF Splitting, InOrder
      <3>3. b \in 1 .. n + 1
        BY <1>1
      <3> QED
        BY <1>2, <3>2, <3>3
    <2> QED
      BY <2>1, <2>2
  <1>6. InOrder(s, q)
    BY <1>2, <1>4, <1>5 DEF InOrder
  <1> QED
    BY <1>6 DEF q

(* The words already in the array are where they were, the new one is whole. *)
LEMMA WordWhole ==
  ASSUME NEW s \in Lines, NEW r \in Splits, Splitting(s, r), r.more,
         NEW w, NEW e, Found(s, r, w, e), w < Len(s),
         NEW b, b[e] = NUL, \A k \in Places : k # e => b[k] = r.buf[k],
         NEW a \in 1 .. Len(r.argv) + 1
  PROVE  /\ WordAt(s, b, Append(r.argv, w)[a])
         /\ EndOf(s, Append(r.argv, w)[a] + 1) \in Nat /\ EndOf(s, Append(r.argv, w)[a] + 1) <= e
  <1> DEFINE n == Len(r.argv)
             q == Append(r.argv, w)
  <1>1. /\ Len(s) \in Nat /\ r.l \in Nat /\ w \in Nat /\ e \in Nat /\ w + 1 <= e /\ r.l <= w
        /\ w \in Places /\ r.argv \in Seq(Places) /\ n \in Nat /\ e <= Len(s) /\ Len(s) < LINE_MAX
    <2>1. Len(s) \in Nat /\ r.l \in Nat /\ r.argv \in Seq(Places) /\ Len(s) < LINE_MAX
      BY LineFacts DEF Splits, Lines, Texts
    <2>2. e \in w + 1 .. Len(s) /\ w \in r.l .. Len(s)
      BY DEF Found
    <2>3. w \in Nat /\ e \in Nat /\ w + 1 <= e /\ e <= Len(s) /\ r.l <= w
      BY <2>1, <2>2
    <2>4. w \in Places
      BY <2>1, <2>3, LineFacts
    <2> QED
      BY <2>1, <2>3, <2>4
  <1>2. q[n + 1] = w /\ \A c \in 1 .. n : q[c] = r.argv[c]
    BY <1>1, AppendIs
  <1> HIDE DEF q
  <1>3. CASE a = n + 1
    <2>1. EndOf(s, w + 1) = e /\ w + 1 \in Begins(s) /\ e \in w + 1 .. Len(s)
      BY DEF Found
    <2>2. ASSUME NEW k \in w .. e - 1 PROVE b[k] = s[k + 1]
      <3>1. k \in Places /\ k # e
        BY <1>1, LineFacts
      <3> QED
        BY <3>1 DEF Found
    <2>3. WordAt(s, b, w)
      BY <2>1, <2>2 DEF WordAt
    <2> QED
      BY <1>1, <1>2, <1>3, <2>1, <2>3 DEF q
  <1>4. CASE a # n + 1
    <2>1. a \in 1 .. n
      BY <1>1, <1>4, UpTo
    <2>2. PICK x, y : x = r.argv[a] /\ y = EndOf(s, x + 1)
      OBVIOUS
    <2>3. x \in Places /\ x \in Nat
      <3>1. r.argv[a] \in Places
        BY <1>1, <2>1
      <3> QED
        BY <2>2, <3>1, LineFacts
    <2>4. WordAt(s, r.buf, x) /\ y < r.l
      BY <2>1, <2>2 DEF Splitting
    <2>5. /\ x + 1 \in Begins(s) /\ y \in x + 1 .. Len(s)
          /\ r.buf[y] = NUL /\ \A k \in x .. y - 1 : r.buf[k] = s[k + 1]
      BY <2>2, <2>4 DEF WordAt
    <2>6. y \in Nat /\ y < e /\ \A k \in x .. y : k \in Places /\ k # e
      BY <1>1, <2>3, <2>4, <2>5, LineFacts
    <2>7. b[y] = NUL /\ \A k \in x .. y - 1 : b[k] = s[k + 1]
      <3>1. y \in x .. y /\ \A k \in x .. y - 1 : k \in x .. y
        BY <2>3, <2>5, <2>6
      <3> QED
        BY <2>5, <2>6, <3>1
    <2>8. WordAt(s, b, x)
      BY <2>2, <2>5, <2>7 DEF WordAt
    <2>9. y <= e
      BY <1>1, <2>6
    <2> QED
      BY <1>2, <2>1, <2>2, <2>6, <2>8, <2>9 DEF q
  <1> QED
    BY <1>3, <1>4

LEMMA TurnKeeps ==
  ASSUME NEW s \in Lines, NEW r \in Splits, Splitting(s, r), r.more
  PROVE  /\ SplitTurn(r) \in Splits /\ Splitting(s, SplitTurn(r))
         /\ SplitTurn(r).more => Len(SplitTurn(r).argv) = Len(r.argv) + 1
  <1>1. PICK w, e : Found(s, r, w, e) /\ SplitTurn(r) = Turned(r, w, e)
    BY SplitTurnIs
  <1>2. PICK q : q = SplitTurn(r)
    OBVIOUS
  <1>3. /\ r.buf \in [Places -> Cell] /\ r.argv \in Seq(Places) /\ r.l \in Places /\ r.l \in Nat
        /\ Len(r.argv) \in Nat /\ Len(r.argv) <= SHELL_MAX_ARGS /\ SHELL_MAX_ARGS \in Nat
        /\ Len(s) \in Nat /\ Len(s) < LINE_MAX /\ NUL \in Cell
        /\ Begins(s) \subseteq 1 .. Len(s)
    BY LineFacts, BeginsType DEF Splits, Splitting, Lines, Texts, Cell
  <1>4. w \in Nat /\ w <= Len(s) /\ r.l <= w /\ \A k \in r.l .. w - 1 : s[k + 1] = Space
    <2>1. w \in r.l .. Len(s)
      BY <1>1 DEF Found
    <2> QED
      BY <1>1, <1>3, <2>1 DEF Found
  <1>5. w \in Places
    BY <1>3, <1>4, LineFacts
  <1>6. CASE w = Len(s) \/ Len(r.argv) >= SHELL_MAX_ARGS
    <2>1. q = [r EXCEPT !.more = FALSE]
      BY <1>1, <1>2, <1>6 DEF Turned, Found
    <2>2. q \in Splits /\ q.buf = r.buf /\ q.argv = r.argv /\ q.l = r.l /\ ~q.more
      BY <2>1 DEF Splits
    <2>3. Len(q.argv) = SHELL_MAX_ARGS \/ \A j \in Begins(s) : Covered(s, q.argv, j)
      <3>1. CASE Len(r.argv) >= SHELL_MAX_ARGS
        BY <1>3, <2>2, <3>1
      <3>2. CASE w = Len(s)
        <4>1. ASSUME NEW j \in Begins(s) PROVE j <= r.l
          <5>1. j \in Nat /\ j >= 1 /\ j <= Len(s) /\ s[j] # Space
            BY <1>3 DEF Begins
          <5>2. SUFFICES ASSUME ~(j <= r.l) PROVE FALSE
            OBVIOUS
          <5>3. j - 1 \in r.l .. w - 1 /\ (j - 1) + 1 = j
            BY <1>3, <3>2, <5>1, <5>2
          <5> QED
            BY <1>4, <5>1, <5>3
        <4> QED
          BY <2>2, <4>1 DEF Splitting
      <3> QED
        BY <1>6, <3>1, <3>2
    <2>4. Splitting(s, q)
      BY <2>2, <2>3 DEF Splitting
    <2> QED
      BY <1>2, <2>2, <2>4
  <1>7. CASE w < Len(s) /\ ~(Len(r.argv) >= SHELL_MAX_ARGS)
    <2>1. r.buf[w] # NUL /\ EndOf(s, w + 1) = e /\ e \in w + 1 .. Len(s)
      BY <1>1, <1>7 DEF Found
    <2>2. e \in Nat /\ w < e /\ e <= Len(s) /\ e \in Places
      BY <1>3, <1>4, <2>1, LineFacts
    <2>3. PICK v : v = Append(r.argv, w)
      OBVIOUS
    <2>4. v \in Seq(Places) /\ Len(v) = Len(r.argv) + 1 /\ Len(v) <= SHELL_MAX_ARGS
      BY <1>3, <1>5, <1>7, <2>3
    <2>5. InOrder(s, v)
      BY <1>1, <1>7, <2>3, WordInOrder
    <2>6. CASE e = Len(s)
      <3>1. r.buf[e] = NUL
        BY <1>1, <1>7, <2>6 DEF Found
      <3>2. q = [r EXCEPT !.argv = v, !.more = FALSE]
        BY <1>1, <1>2, <1>7, <2>1, <2>3, <3>1 DEF Turned
      <3>3. q \in Splits /\ q.buf = r.buf /\ q.argv = v /\ q.l = r.l /\ ~q.more
        BY <2>4, <3>2 DEF Splits
      <3>4. ASSUME NEW a \in 1 .. Len(v) PROVE WordAt(s, q.buf, v[a])
        BY <1>1, <1>7, <2>3, <2>4, <3>1, <3>3, WordWhole
      <3>5. ASSUME NEW j \in Begins(s) PROVE Covered(s, v, j)
        <4>1. j <= e + 1
          BY <1>3, <2>6
        <4> QED
          BY <1>1, <1>7, <2>3, <4>1, WordCovered
      <3>6. Splitting(s, q)
        BY <2>4, <2>5, <3>3, <3>4, <3>5 DEF Splitting
      <3> QED
        BY <1>2, <3>3, <3>6
    <2>7. CASE e # Len(s)
      <3>1. r.buf[e] # NUL /\ s[e + 1] = Space /\ e + 1 <= Len(s)
        BY <1>1, <1>3, <1>7, <2>2, <2>7 DEF Found
      <3>2. q = [buf |-> [r.buf EXCEPT ![e] = NUL], argv |-> v, l |-> e + 1, more |-> TRUE]
        BY <1>1, <1>2, <1>7, <2>1, <2>3, <3>1 DEF Turned
      <3>3. e + 1 \in Places
        BY <1>3, <2>2, <3>1, LineFacts
      <3>4. q \in Splits /\ q.argv = v /\ q.l = e + 1 /\ q.more
        BY <1>3, <2>4, <3>2, <3>3 DEF Splits
      <3>5. q.buf[e] = NUL /\ \A k \in Places : k # e => q.buf[k] = r.buf[k]
        BY <1>3, <2>2, <3>2
      <3>6. ASSUME NEW k \in Places, k >= e + 1 PROVE q.buf[k] = LineOf(s)[k]
        <4>1. k \in Nat /\ k # e /\ k >= r.l
          <5>1. k \in Nat
            BY LineFacts
          <5> QED
            BY <1>3, <1>4, <2>2, <3>6, <5>1
        <4> QED
          BY <3>5, <4>1 DEF Splitting
      <3>7. ASSUME NEW a \in 1 .. Len(v) PROVE WordAt(s, q.buf, v[a]) /\ EndOf(s, v[a] + 1) < e + 1
        <4>1. /\ WordAt(s, q.buf, v[a])
              /\ EndOf(s, v[a] + 1) \in Nat /\ EndOf(s, v[a] + 1) <= e
          BY <1>1, <1>7, <2>3, <2>4, <3>5, WordWhole
        <4> QED
          BY <2>2, <4>1
      <3>8. ASSUME NEW j \in Begins(s), j <= e + 1 PROVE Covered(s, v, j)
        BY <1>1, <1>7, <2>3, <3>8, WordCovered
      <3>9. Splitting(s, q)
        BY <2>4, <2>5, <3>1, <3>4, <3>6, <3>7, <3>8 DEF Splitting
      <3> QED
        BY <1>2, <2>4, <3>4, <3>9
    <2> QED
      BY <2>6, <2>7
  <1> QED
    BY <1>3, <1>4, <1>6, <1>7

(* The whole of shell_split: the last turn is the last, and leaves in argv   *)
(* the first words of the line.                                              *)
LEMMA SplitIs ==
  ASSUME NEW s \in Lines
  PROVE  /\ ShellSplit(LineOf(s)) \in Splits /\ Splitting(s, ShellSplit(LineOf(s)))
         /\ ~ShellSplit(LineOf(s)).more
  <1> DEFINE A == {r \in Splits : Splitting(s, r)}
             N == SHELL_MAX_ARGS + 1
             x == [buf |-> LineOf(s), argv |-> <<>>, l |-> 0, more |-> TRUE]
             Is(f) == f = [n \in 0 .. N |-> IF n = 0 THEN x ELSE SplitTurn(f[n - 1])]
             turn == CHOOSE f : Is(f)
             G == [n \in 1 .. N |-> [r \in A |-> SplitTurn(r)]]
  <1>1. N \in Nat /\ N > SHELL_MAX_ARGS
    BY LineFacts
  <1>2. x \in A /\ x.more /\ Len(x.argv) = 0
    <2>1. LineOf(s) \in [Places -> Cell] /\ 0 \in Places /\ Len(s) \in Nat
      BY LineOfType, LineFacts
    <2>2. x \in Splits
      BY <2>1 DEF Splits
    <2>3. /\ x.buf = LineOf(s) /\ x.argv = <<>> /\ x.l = 0 /\ x.more /\ Len(x.argv) = 0
      OBVIOUS
    <2>4. \A j \in Begins(s) : ~(j <= 0)
      BY <2>1, BeginsType DEF Lines
    <2> HIDE DEF x
    <2>5. Splitting(s, x)
      <3>1. InOrder(s, x.argv)
        BY <2>3 DEF InOrder
      <3>2. \A a \in 1 .. Len(x.argv) : FALSE
        BY <2>3
      <3>3. Len(x.argv) <= SHELL_MAX_ARGS
        BY <2>3, LineFacts
      <3> QED
        BY <2>1, <2>3, <2>4, <3>1, <3>2, <3>3 DEF Splitting
    <2> QED
      BY <2>2, <2>3, <2>5
  <1>3. ASSUME NEW r \in A
        PROVE  SplitTurn(r) \in A /\ (r.more /\ SplitTurn(r).more => Len(SplitTurn(r).argv) = Len(r.argv) + 1)
               /\ (~r.more => ~SplitTurn(r).more)
    <2>1. CASE r.more
      BY <2>1, TurnKeeps
    <2>2. CASE ~r.more
      <3>1. SplitTurn(r) = [r EXCEPT !.more = FALSE]
        BY <2>2 DEF SplitTurn
      <3>2. r \in Splits /\ r.more = FALSE
        BY <2>2 DEF Splits
      <3>3. [r EXCEPT !.more = FALSE] = r
        BY <3>2 DEF Splits
      <3> QED
        BY <2>2, <3>1, <3>3
    <2> QED
      BY <2>1, <2>2
  <1> HIDE DEF A
  <1>4. G \in [1 .. N -> [A -> A]]
    BY <1>3
  <1>5. \A n \in 1 .. N, r \in A : G[n][r] = SplitTurn(r)
    OBVIOUS
  <1> HIDE DEF G, x
  <1>6. PICK f \in [0 .. N -> A] : Links(f, N, x, G)
    BY <1>1, <1>2, <1>4, ChainExists
  <1>7. f[0] = x /\ \A n \in 1 .. N : n - 1 \in 0 .. N /\ f[n] = SplitTurn(f[n - 1])
    <2>1. \A n \in 1 .. N : n - 1 \in 0 .. N
      BY <1>1
    <2> QED
      BY <1>5, <1>6, <2>1 DEF Links
  <1>8. Is(f)
    <2>1. ASSUME NEW n \in 0 .. N PROVE f[n] = IF n = 0 THEN x ELSE SplitTurn(f[n - 1])
      <3>1. n # 0 => n \in 1 .. N
        BY <1>1
      <3> QED
        BY <1>7, <3>1
    <2> QED
      BY <2>1
  <1>9. Is(turn)
    BY <1>8
  <1>10. ShellSplit(LineOf(s)) = turn[N]
    BY DEF ShellSplit, x
  <1> HIDE DEF turn
  <1>11. turn[0] = x /\ \A n \in 1 .. N : turn[n] = SplitTurn(turn[n - 1])
    BY <1>1, <1>9
  <1>12. Follows(turn, N, x, G, A)
    BY <1>5, <1>11 DEF Follows
  <1> DEFINE S == {n \in 0 .. N : f[n].more => Len(f[n].argv) = n}
  <1>13. 0 \in S
    BY <1>1, <1>2, <1>7
  <1>14. ASSUME NEW n \in 1 .. N, n - 1 \in S PROVE n \in S
    <2>1. f[n - 1] \in A /\ f[n] = SplitTurn(f[n - 1]) /\ n \in 0 .. N /\ n \in Nat
      BY <1>1, <1>6, <1>7
    <2>2. f[n].more => f[n - 1].more /\ Len(f[n].argv) = Len(f[n - 1].argv) + 1
      BY <1>3, <2>1
    <2> QED
      BY <1>14, <2>1, <2>2
  <1>15. \A n \in 0 .. N : n \in S
    <2> HIDE DEF S, N
    <2> QED
      BY <1>1, <1>13, <1>14, Counting
  <1>16. N \in 0 .. N
    BY <1>1
  <1>17. ~f[N].more
    <2>1. f[N].more => Len(f[N].argv) = N
      BY <1>15, <1>16
    <2>2. Len(f[N].argv) <= SHELL_MAX_ARGS
      BY <1>6, <1>16 DEF A, Splitting
    <2> QED
      BY <1>1, <2>1, <2>2, LineFacts
  <1>18. turn[N] = f[N]
    <2> HIDE DEF Is, N
    <2>1. Chained(f, N, x, G, A)
      BY <1>6 DEF Chained
    <2>2. Agree(turn, f, N)
      BY <1>1, <1>12, <2>1, ChainOnly, Zenon
    <2> QED
      BY <1>16, <2>2 DEF Agree
  <1>19. f[N] \in Splits /\ Splitting(s, f[N])
    BY <1>6, <1>16 DEF A
  <1> QED
    BY <1>10, <1>17, <1>18, <1>19

(* A command gets the first words of its line, up to SHELL_MAX_ARGS.         *)
LEMMA ArgsAre ==
  ASSUME NEW s \in Lines
  PROVE  Args(LineOf(s)) = SubSeq(Words(s), 1, Min({Len(Words(s)), SHELL_MAX_ARGS}))
  <1> DEFINE W == Cardinality(Begins(s))
  <1>1. PICK r : r = ShellSplit(LineOf(s))
    OBVIOUS
  <1>2. r \in Splits /\ Splitting(s, r) /\ ~r.more
    BY <1>1, SplitIs
  <1>3. PICK n : n = Len(r.argv)
    OBVIOUS
  <1>4. /\ n \in Nat /\ r.argv \in Seq(Places) /\ DOMAIN r.argv = 1 .. n /\ n <= SHELL_MAX_ARGS
        /\ s \in Seq(Shown) /\ s \in Texts /\ Len(s) \in Nat /\ Len(s) < LINE_MAX
    BY <1>2, <1>3 DEF Splits, Splitting, Lines, Texts
  <1>5. PICK p : p = [a \in 1 .. n |-> r.argv[a] + 1]
    OBVIOUS
  <1>6. ASSUME NEW a \in 1 .. n
        PROVE  /\ r.argv[a] \in Nat /\ r.argv[a] \in Places /\ p[a] = r.argv[a] + 1
               /\ WordAt(s, r.buf, r.argv[a]) /\ p[a] \in Begins(s)
    BY <1>2, <1>3, <1>4, <1>5, LineFacts DEF Splitting, WordAt
  <1>7. Picks(s, p, n)
    <2>1. p \in [1 .. n -> Begins(s)]
      BY <1>5, <1>6
    <2>2. ASSUME NEW a \in 1 .. n, NEW b \in 1 .. n, a < b PROVE p[a] < p[b]
      <3>1. r.argv[a] < r.argv[b]
        BY <1>2, <1>3, <2>2 DEF Splitting, InOrder
      <3> QED
        BY <1>6, <3>1
    <2>3. ASSUME NEW a \in 1 .. n, NEW j \in Begins(s), j <= p[a] PROVE \E b \in 1 .. n : p[b] = j
      <3>1. PICK b \in 1 .. n : r.argv[b] + 1 = j
        BY <1>2, <1>3, <1>6, <2>3 DEF Splitting, InOrder
      <3> QED
        BY <1>6, <3>1
    <2> QED
      BY <2>1, <2>2, <2>3 DEF Picks
  <1>8. /\ n <= W /\ \A a \in 1 .. n : Words(s)[a] = SubSeq(s, p[a], EndOf(s, p[a]))
        /\ (\A j \in Begins(s) : \E a \in 1 .. n : p[a] = j) => n = W
    <2>1. Picked(s, p, n)
      BY <1>4, <1>7, PicksWords
    <2> QED
      BY <2>1 DEF Picked
  <1>9. Words(s) = [k \in 1 .. W |-> SubSeq(s, Nth(s, k), EndOf(s, Nth(s, k)))] /\ W \in Nat
    BY <1>4, WordsAre, BeginsType
  <1> HIDE DEF W
  <1>10. Len(Words(s)) = W /\ Words(s) \in Seq(Range(Words(s)))
    <2>1. W \in Nat /\ DOMAIN Words(s) = 1 .. W
      BY <1>9
    <2>2. Words(s) = [k \in 1 .. W |-> Words(s)[k]]
      BY <1>9, Zenon
    <2> QED
      BY <2>1, <2>2, FunctionIsSeq
  <1>11. Min({W, SHELL_MAX_ARGS}) = n
    <2>1. n = SHELL_MAX_ARGS \/ n = W
      <3>1. CASE n # SHELL_MAX_ARGS
        <4>1. \A j \in Begins(s) : Covered(s, r.argv, j)
          BY <1>2, <1>3, <3>1 DEF Splitting
        <4>2. \A j \in Begins(s) : \E a \in 1 .. n : p[a] = j
          BY <1>3, <1>6, <4>1 DEF Covered
        <4> QED
          BY <1>8, <4>2
      <3> QED
        BY <3>1
    <2>2. {W, SHELL_MAX_ARGS} \subseteq Nat /\ n \in {W, SHELL_MAX_ARGS}
      BY <1>9, <2>1, LineFacts
    <2>3. \A k \in {W, SHELL_MAX_ARGS} : n <= k
      BY <1>4, <1>8
    <2> QED
      BY <2>2, <2>3, MinIs
  <1>12. ASSUME NEW a \in 1 .. n PROVE StringAt(r.buf, r.argv[a]) = Words(s)[a]
    <2>1. PICK x, e : x = r.argv[a] /\ e = EndOf(s, x + 1)
      OBVIOUS
    <2>2. x \in Nat /\ x \in Places /\ p[a] = x + 1 /\ WordAt(s, r.buf, x)
      BY <1>6, <2>1
    <2>3. e \in x + 1 .. Len(s) /\ r.buf[e] = NUL /\ \A k \in x .. e - 1 : r.buf[k] = s[k + 1]
      BY <2>1, <2>2 DEF WordAt
    <2>4. e \in Nat /\ e \in Places /\ x <= e
      BY <1>4, <2>2, <2>3, LineFacts
    <2>5. ASSUME NEW k \in x .. e - 1 PROVE r.buf[k] \in Shown
      <3>1. k + 1 \in 1 .. Len(s)
        BY <1>4, <2>2, <2>3, <2>4
      <3> QED
        BY <1>4, <2>3, <3>1
    <2>6. StringAt(r.buf, x) = [k \in 1 .. e - x |-> r.buf[x + k - 1]]
      BY <2>2, <2>3, <2>4, <2>5, StringAtIs
    <2>7. ASSUME NEW k \in 1 .. e - x PROVE r.buf[x + k - 1] = s[x + 1 + k - 1]
      <3>1. x + k - 1 \in x .. e - 1 /\ (x + k - 1) + 1 = x + 1 + k - 1
        BY <2>2, <2>4
      <3> QED
        BY <2>3, <3>1
    <2>8. SubSeq(s, x + 1, e) = [k \in 1 .. e + 1 - (x + 1) |-> s[x + 1 + k - 1]]
      <3>1. x + 1 \in Nat \ {0} /\ x + 1 <= e + 1 /\ e <= Len(s)
        BY <1>4, <2>2, <2>3, <2>4
      <3> QED
        <4>1. PICK z : z = x + 1
          OBVIOUS
        <4>2. z \in Nat \ {0} /\ z <= e + 1 /\ e <= Len(s) /\ e \in Nat
          BY <2>4, <3>1, <4>1
        <4>3. SubSeq(s, z, e) = [k \in 1 .. e + 1 - z |-> s[z + k - 1]]
          BY <1>4, <4>2, SubSeqIs
        <4> QED
          BY <4>1, <4>3
    <2>9. e + 1 - (x + 1) = e - x
      BY <2>2, <2>4
    <2>10. Words(s)[a] = SubSeq(s, x + 1, e)
      BY <1>8, <2>1, <2>2
    <2> QED
      BY <2>1, <2>6, <2>7, <2>8, <2>9, <2>10
  <1>13. Args(LineOf(s)) = [k \in 1 .. n |-> StringAt(r.buf, r.argv[k])]
    BY <1>1, <1>4 DEF Args
  <1>14. SubSeq(Words(s), 1, n) = [k \in 1 .. n |-> Words(s)[k]]
    <2>1. SubSeq(Words(s), 1, n) = [k \in 1 .. n + 1 - 1 |-> Words(s)[1 + k - 1]]
      <3>1. 1 \in Nat \ {0} /\ 1 <= n + 1 /\ n <= Len(Words(s))
        BY <1>4, <1>8, <1>10
      <3> QED
        BY <1>4, <1>10, <3>1, SubSeqIs
    <2>2. n + 1 - 1 = n /\ \A k \in 1 .. n : 1 + k - 1 = k
      BY <1>4
    <2> QED
      BY <2>1, <2>2
  <1> QED
    BY <1>10, <1>11, <1>12, <1>13, <1>14

-----------------------------------------------------------------------------
(* What a word is: characters shown, none of them a space, and one at least. *)
Spaceless == {u \in Seq(Shown \ {Space}) : u # <<>>}

(* The end of a word is the last place before a space or the end of the text. *)
LEMMA EndFacts ==
  ASSUME NEW s \in Texts, NEW i \in Begins(s)
  PROVE  /\ i \in 1 .. Len(s) /\ EndOf(s, i) \in i .. Len(s)
         /\ \A k \in i .. EndOf(s, i) : s[k] # Space
         /\ EndOf(s, i) = Len(s) \/ s[EndOf(s, i) + 1] = Space
  <1>1. s \in Seq(Shown) /\ Len(s) \in Nat /\ i \in 1 .. Len(s) /\ s[i] # Space
    BY BeginsType DEF Texts, Begins
  <1> DEFINE U == {d \in 0 .. Len(s) - i : \A k \in i .. Len(s) - d : s[k] # Space}
  <1>2. Len(s) - i \in U
    <2>1. Len(s) - (Len(s) - i) = i
      BY <1>1
    <2>2. Len(s) - i \in 0 .. Len(s) - i /\ \A k \in i .. i : s[k] # Space
      BY <1>1
    <2> QED
      BY <2>1, <2>2
  <1>3. U \subseteq Nat
    BY <1>1
  <1>4. PICK d \in U : \A c \in U : d <= c
    <2> HIDE DEF U
    <2> QED
      BY <1>2, <1>3, Least
  <1>5. PICK e : e = Len(s) - d
    OBVIOUS
  <1>6. d \in Nat /\ e \in i .. Len(s) /\ \A k \in i .. e : s[k] # Space
    BY <1>1, <1>4, <1>5
  <1>7. e = Len(s) \/ s[e + 1] = Space
    <2> SUFFICES ASSUME e # Len(s), s[e + 1] # Space PROVE FALSE
      OBVIOUS
    <2>1. d - 1 \in 0 .. Len(s) - i /\ Len(s) - (d - 1) = e + 1 /\ ~(d <= d - 1)
      BY <1>1, <1>5, <1>6
    <2>2. ASSUME NEW k \in i .. e + 1 PROVE s[k] # Space
      <3>1. k = e + 1 \/ k \in i .. e
        BY <1>1, <1>6
      <3> QED
        BY <1>6, <3>1
    <2>3. d - 1 \in U
      BY <2>1, <2>2
    <2> QED
      BY <1>4, <2>1, <2>3
  <1>8. EndOf(s, i) = e
    BY <1>1, <1>6, <1>7, EndIs
  <1> QED
    BY <1>1, <1>6, <1>7, <1>8

(* There are as many first words to pick out as the text has words.          *)
LEMMA PicksAll ==
  ASSUME NEW s \in Texts, NEW n \in 0 .. Cardinality(Begins(s))
  PROVE  \E p : Picks(s, p, n)
  <1> DEFINE W == Cardinality(Begins(s))
             S == {m \in 0 .. W : \E p : Picks(s, p, m)}
  <1>1. W \in Nat /\ Begins(s) \subseteq Nat
    BY BeginsType
  <1>2. 0 \in S
    <2>1. Picks(s, <<>>, 0)
      BY DEF Picks
    <2> QED
      BY <1>1, <2>1
  <1>3. ASSUME NEW m \in 1 .. W, m - 1 \in S PROVE m \in S
    <2>1. PICK p : Picks(s, p, m - 1)
      BY <1>3
    <2>2. m \in Nat /\ m - 1 \in Nat /\ m \in 0 .. W /\ m - 1 # W
      BY <1>1
    <2> DEFINE R == {j \in Begins(s) : \A a \in 1 .. m - 1 : p[a] # j}
    <2>3. R # {}
      <3>1. ~ \A j \in Begins(s) : \E a \in 1 .. m - 1 : p[a] = j
        BY <2>1, <2>2, PicksWords DEF Picked
      <3> QED
        BY <3>1
    <2>4. PICK i \in R : \A j \in R : i <= j
      <3>1. R \subseteq Nat
        BY <1>1
      <3> HIDE DEF R
      <3> QED
        BY <2>3, <3>1, Least
    <2>5. \A a \in 1 .. m - 1 : p[a] \in Begins(s) /\ p[a] \in Nat
      BY <1>1, <2>1 DEF Picks
    <2>6. \A a \in 1 .. m - 1 : p[a] < i
      <3> SUFFICES ASSUME NEW a \in 1 .. m - 1, ~(p[a] < i) PROVE FALSE
        OBVIOUS
      <3>1. i <= p[a]
        BY <1>1, <2>4, <2>5
      <3>2. \E b \in 1 .. m - 1 : p[b] = i
        BY <2>1, <2>4, <3>1 DEF Picks
      <3> QED
        BY <2>4, <3>2
    <2>7. PICK q : q = [a \in 1 .. m |-> IF a = m THEN i ELSE p[a]]
      OBVIOUS
    <2>8. q[m] = i /\ \A a \in 1 .. m - 1 : a \in 1 .. m /\ q[a] = p[a]
      BY <2>2, <2>7
    <2>9. \A a \in 1 .. m : a = m \/ a \in 1 .. m - 1
      BY <2>2
    <2>10. q \in [1 .. m -> Begins(s)]
      BY <2>4, <2>5, <2>7, <2>9
    <2>11. ASSUME NEW a \in 1 .. m, NEW b \in 1 .. m, a < b PROVE q[a] < q[b]
      <3>1. a \in 1 .. m - 1
        BY <2>2, <2>11
      <3>2. CASE b = m
        BY <2>6, <2>8, <3>1, <3>2
      <3>3. CASE b \in 1 .. m - 1
        BY <2>1, <2>8, <2>11, <3>1, <3>3 DEF Picks
      <3> QED
        BY <2>9, <3>2, <3>3
    <2>12. ASSUME NEW a \in 1 .. m, NEW j \in Begins(s), j <= q[a] PROVE \E b \in 1 .. m : q[b] = j
      <3>1. CASE j \in R
        <4>1. i <= j /\ q[a] <= i
          <5>1. q[a] = i \/ q[a] < i
            BY <2>6, <2>8, <2>9
          <5> QED
            BY <1>1, <2>4, <2>5, <2>8, <2>9, <3>1, <5>1
        <4>2. j = i
          BY <1>1, <2>4, <2>10, <2>12, <4>1
        <4>3. m \in 1 .. m
          BY <2>2
        <4> QED
          BY <2>8, <4>2, <4>3
      <3>2. CASE j \notin R
        <4>1. PICK b \in 1 .. m - 1 : p[b] = j
          BY <3>2
        <4> QED
          BY <2>8, <4>1
      <3> QED
        BY <3>1, <3>2
    <2>13. Picks(s, q, m)
      BY <2>10, <2>11, <2>12 DEF Picks
    <2> QED
      BY <2>2, <2>13
  <1>4. \A m \in 0 .. W : m \in S
    <2> HIDE DEF S, W
    <2> QED
      BY <1>1, <1>2, <1>3, Counting
  <1> QED
    BY <1>4

LEMMA WordsType ==
  ASSUME NEW s \in Texts
  PROVE  Words(s) \in Seq(Spaceless) /\ Len(Words(s)) = Cardinality(Begins(s))
  <1> DEFINE n == Cardinality(Begins(s))
  <1>1. n \in Nat /\ n \in 0 .. n
    BY BeginsType
  <1>2. PICK p : Picks(s, p, n)
    BY <1>1, PicksAll
  <1>3. Words(s) = [k \in 1 .. n |-> SubSeq(s, Nth(s, k), EndOf(s, Nth(s, k)))]
    BY WordsAre
  <1>4. ASSUME NEW k \in 1 .. n PROVE SubSeq(s, Nth(s, k), EndOf(s, Nth(s, k))) \in Spaceless
    <2>1. PICK i, e : i = p[k] /\ e = EndOf(s, i)
      OBVIOUS
    <2>2. Nth(s, k) = i /\ i \in Begins(s)
      BY <1>1, <1>2, <2>1, PicksNth DEF Picks
    <2>3. i \in 1 .. Len(s) /\ e \in i .. Len(s) /\ \A m \in i .. e : s[m] # Space
      BY <2>1, <2>2, EndFacts
    <2>4. s \in Seq(Shown) /\ Len(s) \in Nat /\ i \in Nat /\ e \in Nat /\ i <= e /\ e <= Len(s)
      BY <2>3 DEF Texts
    <2>5. ASSUME NEW m \in i .. e PROVE s[m] \in Shown \ {Space}
      <3>1. m \in 1 .. Len(s)
        BY <2>3, <2>4
      <3> QED
        BY <2>3, <2>4, <3>1
    <2>6. PICK u : u = SubSeq(s, i, e)
      OBVIOUS
    <2>7. u \in Seq(Shown \ {Space}) /\ Len(u) = (IF i <= e THEN e-i+1 ELSE 0)
      <3>1. i \in Int /\ e \in Int
        BY <2>4
      <3> QED
        BY <2>5, <2>6, <3>1, SubSeqProperties
    <2>8. u # <<>>
      BY <2>4, <2>7
    <2> QED
      BY <2>1, <2>2, <2>6, <2>7, <2>8 DEF Spaceless
  <1> HIDE DEF n
  <1>5. PICK w : w = Words(s)
    OBVIOUS
  <1>6. w \in [1 .. n -> Spaceless]
    BY <1>3, <1>4, <1>5
  <1>7. w \in Seq(Spaceless) /\ Len(w) = n
    BY <1>1, <1>6
  <1> QED
    BY <1>5, <1>7 DEF n

(* A word put after a text, with a space between, is a word more.            *)
LEMMA WordsAppend ==
  ASSUME NEW s \in Texts, NEW d \in {<<>>, <<Space>>}, s = <<>> \/ d = <<Space>>, NEW u \in Spaceless,
         NEW t, t = (s \o d) \o u
  PROVE  t \in Texts /\ Words(t) = Append(Words(s), u) /\ Len(t) = Len(s) + Len(d) + Len(u)
  <1>1. PICK l, m, n : l = Len(s) /\ m = Len(s) + Len(d) /\ n = m + Len(u)
    OBVIOUS
  <1>2. /\ s \in Seq(Shown) /\ d \in Seq(Shown) /\ u \in Seq(Shown) /\ Space \in Shown
        /\ l \in Nat /\ m \in Nat /\ n \in Nat /\ Len(u) \in Nat \ {0} /\ n = m + Len(u) /\ l <= m
        /\ m = l + 1 \/ (m = 0 /\ l = 0)
        /\ \A k \in 1 .. Len(u) : u[k] # Space
    <2>1. u \in Seq(Shown \ {Space}) /\ u # <<>>
      BY DEF Spaceless
    <2>2. u \in Seq(Shown) /\ Len(u) \in Nat \ {0} /\ \A k \in 1 .. Len(u) : u[k] # Space
      BY <2>1
    <2>3. Space \in Shown /\ s \in Seq(Shown) /\ l \in Nat
      BY <1>1, LineFacts DEF Texts
    <2>4. d \in Seq(Shown) /\ (m = l + 1 \/ (m = 0 /\ l = 0)) /\ m \in Nat /\ l <= m
      <3>1. CASE d = <<>>
        <4>1. l = 0 /\ Len(d) = 0 /\ d \in Seq(Shown)
          BY <1>1, <3>1
        <4> QED
          BY <1>1, <4>1
      <3>2. CASE d = <<Space>>
        <4>1. Len(d) = 1 /\ d \in Seq(Shown)
          BY <2>3, <3>2
        <4> QED
          BY <1>1, <2>3, <4>1
      <3> QED
        BY <3>1, <3>2
    <2> QED
      BY <1>1, <2>2, <2>3, <2>4
  <1>3. t \in Seq(Shown) /\ Len(t) = n /\ DOMAIN t = 1 .. n
    BY <1>1, <1>2
  <1>4. \A k \in 1 .. l : t[k] = s[k]
    BY <1>1, <1>2
  <1>5. \A k \in l + 1 .. m : t[k] = Space
    <2>1. CASE d = <<>>
      BY <1>1, <1>2, <2>1
    <2>2. CASE d = <<Space>>
      <3>1. m = l + 1 /\ Len(s \o d) = m /\ (s \o d)[m] = Space
        BY <1>1, <1>2, <2>2
      <3>2. t[m] = (s \o d)[m]
        BY <1>2, <3>1
      <3> QED
        BY <1>2, <3>1, <3>2
    <2> QED
      BY <2>1, <2>2
  <1>6. \A k \in 1 .. Len(u) : t[m + k] = u[k]
    <2>1. s \o d \in Seq(Shown) /\ Len(s \o d) = m
      BY <1>1, <1>2
    <2> QED
      <3>1. PICK x : x = s \o d
        OBVIOUS
      <3>2. t = x \o u /\ x \in Seq(Shown) /\ Len(x) = m /\ u \in Seq(Shown)
        BY <1>2, <2>1, <3>1
      <3>3. \A k \in 1 .. Len(u) : (x \o u)[Len(x) + k] = u[k]
        BY <3>2
      <3> QED
        BY <3>2, <3>3
  <1>7. \A k \in m + 1 .. n : k \in Nat /\ t[k] # Space
    <2> TAKE k \in m + 1 .. n
    <2>1. k - m \in 1 .. Len(u) /\ m + (k - m) = k /\ k \in Nat
      BY <1>2
    <2> QED
      BY <1>2, <1>6, <2>1
  <1>8. m = 0 \/ (m \in 1 .. n /\ t[m] = Space)
    <2>1. CASE m = l + 1
      <3>1. m \in l + 1 .. m /\ m \in 1 .. n
        BY <1>2, <2>1
      <3> QED
        BY <1>5, <3>1
    <2> QED
      BY <1>2, <2>1
  <1>9. Begins(s) \subseteq 1 .. l /\ Begins(s) \subseteq Nat /\ Cardinality(Begins(s)) \in Nat /\ DOMAIN s = 1 .. l
    BY <1>1, <1>2, BeginsType
  <1>10. \A i \in Begins(s) : i \in Begins(t)
    <2> TAKE i \in Begins(s)
    <2>1. i \in 1 .. l /\ i \in 1 .. n /\ s[i] # Space /\ (i = 1 \/ s[i - 1] = Space)
      BY <1>2, <1>9 DEF Begins
    <2>2. i = 1 \/ i - 1 \in 1 .. l
      BY <1>2, <2>1
    <2> QED
      BY <1>3, <1>4, <2>1, <2>2 DEF Begins
  <1>11. m + 1 \in Begins(t)
    <2>1. m + 1 \in m + 1 .. n /\ m + 1 \in 1 .. n /\ (m + 1) - 1 = m
      BY <1>2
    <2>2. t[m + 1] # Space
      BY <1>7, <2>1
    <2>3. m + 1 = 1 \/ t[(m + 1) - 1] = Space
      <3>1. m = 0 => m + 1 = 1
        OBVIOUS
      <3> QED
        BY <1>8, <2>1, <3>1
    <2> QED
      BY <1>3, <2>1, <2>2, <2>3 DEF Begins
  <1>12. ASSUME NEW i \in Begins(t) PROVE i \in Begins(s) \/ i = m + 1
    <2>1. i \in 1 .. n /\ i \in Nat /\ t[i] # Space /\ (i = 1 \/ t[i - 1] = Space)
      BY <1>3 DEF Begins
    <2>2. i \notin l + 1 .. m
      BY <1>5, <2>1
    <2>3. CASE i <= l
      <3>1. i \in 1 .. l /\ (i = 1 \/ i - 1 \in 1 .. l)
        BY <1>2, <2>1, <2>3
      <3> QED
        BY <1>4, <1>9, <2>1, <3>1 DEF Begins
    <2>4. CASE i > m + 1
      <3>1. i - 1 \in m + 1 .. n /\ i # 1
        BY <1>2, <2>1, <2>4
      <3> QED
        BY <1>7, <2>1, <3>1
    <2> QED
      BY <1>2, <2>1, <2>2, <2>3, <2>4
  <1>13. PICK w : w = Cardinality(Begins(s))
    OBVIOUS
  <1>14. w \in Nat /\ w \in 0 .. w
    BY <1>9, <1>13
  <1>15. PICK p : Picks(s, p, w)
    BY <1>13, <1>14, PicksAll
  <1>16. PICK q : q = [a \in 1 .. w + 1 |-> IF a = w + 1 THEN m + 1 ELSE p[a]]
    OBVIOUS
  <1>17. /\ q[w + 1] = m + 1 /\ \A a \in 1 .. w : q[a] = p[a] /\ p[a] \in Begins(s) /\ p[a] \in Nat /\ p[a] <= l
         /\ \A a \in 1 .. w + 1 : a \in Nat /\ (a = w + 1 \/ a \in 1 .. w)
         /\ \A a \in 1 .. w : a \in 1 .. w + 1
    <2>1. \A a \in 1 .. w : a \in 1 .. w + 1 /\ a # w + 1
      BY <1>14
    <2>2. \A a \in 1 .. w : p[a] \in Begins(s) /\ p[a] \in Nat /\ p[a] <= l
      BY <1>9, <1>15 DEF Picks
    <2>3. \A a \in 1 .. w + 1 : a \in Nat /\ (a = w + 1 \/ a \in 1 .. w)
      BY <1>14
    <2>4. w + 1 \in 1 .. w + 1
      BY <1>14
    <2> QED
      BY <1>16, <2>1, <2>2, <2>3, <2>4
  <1>18. \A j \in Begins(s) : \E a \in 1 .. w : p[a] = j
    <2> TAKE j \in Begins(s)
    <2> SUFFICES ASSUME \A a \in 1 .. w : p[a] # j PROVE FALSE
      OBVIOUS
    <2>1. p \in [1 .. w -> Begins(s) \ {j}]
      BY <1>15 DEF Picks
    <2>2. p \in Injection(1 .. w, Begins(s) \ {j})
      <3>1. ASSUME NEW b \in 1 .. w, NEW c \in 1 .. w, p[b] = p[c] PROVE b = c
        <4>1. ~(b < c) /\ ~(c < b)
          BY <1>15, <1>17, <3>1 DEF Picks
        <4> QED
          BY <4>1
      <3> QED
        BY <2>1, <3>1 DEF Injection, IsInjective
    <2>3. IsFiniteSet(Begins(s)) /\ IsFiniteSet(1 .. w) /\ Cardinality(1 .. w) = w
      <3>1. IsFiniteSet(1 .. w) /\ Cardinality(1 .. w) = w
        <4>1. PICK one : one = 1
          OBVIOUS
        <4>2. /\ IsFiniteSet(one .. w)
              /\ Cardinality(one .. w) = IF one > w THEN 0 ELSE w - one + 1
          BY <1>14, <4>1, FS_Interval, one \in Int, w \in Int
        <4> QED
          BY <1>14, <4>1, <4>2
      <3> QED
        BY <3>1, BeginsType
    <2>4. IsFiniteSet(Begins(s) \ {j}) /\ Cardinality(Begins(s) \ {j}) = w - 1
      BY <1>13, <2>3, FS_RemoveElement
    <2>5. w <= w - 1
      BY <2>2, <2>3, <2>4, FS_Injection
    <2> QED
      BY <1>14, <2>5
  <1>19. Picks(t, q, w + 1)
    <2>1. q \in [1 .. w + 1 -> Begins(t)]
      BY <1>10, <1>11, <1>16, <1>17
    <2>2. ASSUME NEW a \in 1 .. w + 1, NEW b \in 1 .. w + 1, a < b PROVE q[a] < q[b]
      <3>1. a \in 1 .. w
        BY <1>14, <1>17, <2>2
      <3>2. CASE b = w + 1
        <4>1. q[b] = m + 1 /\ q[a] \in Nat /\ q[a] <= l
          BY <1>17, <3>1, <3>2
        <4> QED
          BY <1>2, <4>1
      <3>3. CASE b \in 1 .. w
        BY <1>15, <1>17, <2>2, <3>1, <3>3 DEF Picks
      <3> QED
        BY <1>17, <3>2, <3>3
    <2>3. ASSUME NEW j \in Begins(t) PROVE \E b \in 1 .. w + 1 : q[b] = j
      <3>1. CASE j = m + 1
        <4>1. w + 1 \in 1 .. w + 1
          BY <1>14
        <4> QED
          BY <1>17, <3>1, <4>1
      <3>2. CASE j \in Begins(s)
        BY <1>17, <1>18, <3>2
      <3> QED
        BY <1>12, <3>1, <3>2
    <2> QED
      BY <2>1, <2>2, <2>3 DEF Picks
  <1>20. \A j \in Begins(t) : \E b \in 1 .. w + 1 : q[b] = j
    <2> TAKE j \in Begins(t)
    <2>1. CASE j = m + 1
      <3>1. w + 1 \in 1 .. w + 1
        BY <1>14
      <3> QED
        BY <1>17, <2>1, <3>1
    <2>2. CASE j \in Begins(s)
      BY <1>17, <1>18, <2>2
    <2> QED
      BY <1>12, <2>1, <2>2
  <1>21. t \in Texts /\ w + 1 \in Nat
    BY <1>3, <1>14 DEF Texts
  <1>22. /\ Cardinality(Begins(t)) = w + 1
         /\ \A a \in 1 .. w + 1 : Words(t)[a] = SubSeq(t, q[a], EndOf(t, q[a]))
    <2>1. PICK z : z = w + 1
      OBVIOUS
    <2>2. z \in Nat /\ Picks(t, q, z) /\ \A j \in Begins(t) : \E b \in 1 .. z : q[b] = j
      BY <1>19, <1>20, <1>21, <2>1
    <2>3. /\ z <= Cardinality(Begins(t))
          /\ \A a \in 1 .. z : Words(t)[a] = SubSeq(t, q[a], EndOf(t, q[a]))
          /\ (\A j \in Begins(t) : \E b \in 1 .. z : q[b] = j) => z = Cardinality(Begins(t))
      <3>1. Picked(t, q, z)
        BY <1>21, <2>2, PicksWords, Zenon
      <3> QED
        BY <3>1 DEF Picked
    <2> QED
      BY <2>1, <2>2, <2>3
  <1>23. \A a \in 1 .. w : Words(s)[a] = SubSeq(s, p[a], EndOf(s, p[a]))
    BY <1>14, <1>15, PicksWords DEF Picked
  <1>24. /\ Words(t) \in Seq(Spaceless) /\ Len(Words(t)) = w + 1
         /\ Words(s) \in Seq(Spaceless) /\ Len(Words(s)) = w
    BY <1>13, <1>21, <1>22, WordsType
  <1>25. ASSUME NEW a \in 1 .. w PROVE Words(t)[a] = Words(s)[a]
    <2>1. PICK i, e : i = p[a] /\ e = EndOf(s, i)
      OBVIOUS
    <2>2. /\ i \in Begins(s) /\ i \in 1 .. l /\ e \in i .. l /\ \A k \in i .. e : s[k] # Space
          /\ e = l \/ s[e + 1] = Space
      BY <1>1, <1>17, <2>1, EndFacts
    <2>3. i \in Nat /\ e \in Nat /\ i \in 1 .. n /\ e \in i .. n /\ i \in Nat \ {0} /\ i <= e + 1 /\ e <= n /\ e <= l
      BY <1>2, <2>2
    <2>4. \A k \in i .. e : t[k] = s[k] /\ t[k] # Space
      <3>1. \A k \in i .. e : k \in 1 .. l
        BY <1>2, <2>2, <2>3
      <3> QED
        BY <1>4, <2>2, <3>1
    <2>5. e = n \/ t[e + 1] = Space
      <3>1. CASE e = l
        <4>1. m = l + 1
          BY <1>2, <2>2
        <4>2. e + 1 \in l + 1 .. m
          BY <1>2, <3>1, <4>1
        <4> QED
          BY <1>5, <4>2
      <3>2. CASE e # l
        <4>1. e + 1 \in 1 .. l
          BY <1>2, <2>3, <3>2
        <4> QED
          BY <1>4, <2>2, <3>2, <4>1
      <3> QED
        BY <3>1, <3>2
    <2>6. EndOf(t, i) = e
      BY <1>3, <1>21, <2>3, <2>4, <2>5, EndIs
    <2>7. SubSeq(t, i, e) = [k \in 1 .. e + 1 - i |-> t[i + k - 1]]
      BY <1>3, <2>3, SubSeqIs
    <2>8. SubSeq(s, i, e) = [k \in 1 .. e + 1 - i |-> s[i + k - 1]]
      BY <1>1, <1>2, <2>3, SubSeqIs
    <2>9. \A k \in 1 .. e + 1 - i : i + k - 1 \in i .. e
      BY <2>3
    <2>10. SubSeq(t, i, e) = SubSeq(s, i, e)
      BY <2>4, <2>7, <2>8, <2>9
    <2> QED
      BY <1>17, <1>22, <1>23, <2>1, <2>6, <2>10
  <1>26. Words(t)[w + 1] = u
    <2>1. w + 1 \in 1 .. w + 1 /\ m + 1 \in 1 .. n /\ n \in m + 1 .. n
      BY <1>2, <1>14
    <2>2. EndOf(t, m + 1) = n
      BY <1>3, <1>7, <1>21, <2>1, EndIs
    <2>3. SubSeq(t, m + 1, n) = [k \in 1 .. n + 1 - (m + 1) |-> t[m + 1 + k - 1]]
      <3>1. m + 1 \in Nat \ {0} /\ m + 1 <= n + 1
        BY <1>2
      <3> QED
        <4>1. PICK z : z = m + 1
          OBVIOUS
        <4>2. z \in Nat \ {0} /\ z <= n + 1 /\ n <= Len(t) /\ n \in Nat
          BY <1>2, <1>3, <3>1, <4>1
        <4>3. SubSeq(t, z, n) = [k \in 1 .. n + 1 - z |-> t[z + k - 1]]
          BY <1>3, <4>2, SubSeqIs
        <4> QED
          BY <4>1, <4>3
    <2>4. n + 1 - (m + 1) = Len(u) /\ \A k \in 1 .. Len(u) : m + 1 + k - 1 = m + k
      BY <1>2
    <2>5. u = [k \in 1 .. Len(u) |-> u[k]]
      BY <1>2
    <2>6. SubSeq(t, m + 1, n) = u
      BY <1>6, <2>3, <2>4, <2>5
    <2>7. Words(t)[w + 1] = SubSeq(t, q[w + 1], EndOf(t, q[w + 1]))
      BY <1>22, <2>1
    <2> QED
      BY <1>17, <2>2, <2>6, <2>7
  <1>27. PICK x, y : x = Words(t) /\ y = Words(s)
    OBVIOUS
  <1>28. x = Append(y, u)
    <2>1. x \in Seq(Spaceless) /\ y \in Seq(Spaceless) /\ Len(x) = w + 1 /\ Len(y) = w
      BY <1>24, <1>27
    <2>2. Append(y, u) \in Seq(Spaceless) /\ Len(Append(y, u)) = w + 1 /\ Append(y, u)[w + 1] = u
      BY <2>1, AppendIs
    <2>3. \A a \in 1 .. w : Append(y, u)[a] = y[a]
      BY <2>1, AppendIs
    <2>4. \A a \in 1 .. w + 1 : x[a] = Append(y, u)[a]
      BY <1>17, <1>25, <1>26, <1>27, <2>2, <2>3
    <2> QED
      BY <2>1, <2>2, <2>4, SeqEqual
  <1> QED
    BY <1>1, <1>3, <1>21, <1>27, <1>28

(* Words joined give the words again.                                        *)
Apart(n) == IF n = 1 THEN <<>> ELSE <<Space>>

LEMMA JoinedIs ==
  ASSUME NEW ws \in Seq(Spaceless)
  PROVE  \E f \in [0 .. Len(ws) -> Texts] :
           /\ f[0] = <<>> /\ \A n \in 1 .. Len(ws) : f[n] = (f[n - 1] \o Apart(n)) \o ws[n]
           /\ Joined(ws) = f[Len(ws)]
  <1> DEFINE N == Len(ws)
             Is(f) == f = [n \in 0 .. N |-> IF n = 0 THEN <<>>
                                            ELSE f[n - 1] \o (IF n = 1 THEN <<>> ELSE <<Space>>) \o ws[n]]
             text == CHOOSE f : Is(f)
             G == [n \in 1 .. N |-> [t \in Texts |-> (t \o Apart(n)) \o ws[n]]]
  <1>1. N \in Nat /\ \A n \in 1 .. N : ws[n] \in Spaceless
    OBVIOUS
  <1>2. G \in [1 .. N -> [Texts -> Texts]]
    <2>1. ASSUME NEW n \in 1 .. N, NEW t \in Texts PROVE (t \o Apart(n)) \o ws[n] \in Texts
      <3>1. ws[n] \in Seq(Shown)
        <4>1. ws[n] \in Seq(Shown \ {Space})
          BY <1>1 DEF Spaceless
        <4> QED
          BY <4>1
      <3>2. Apart(n) \in Seq(Shown)
        <4>1. <<>> \in Seq(Shown) /\ <<Space>> \in Seq(Shown)
          BY LineFacts
        <4> QED
          BY <4>1 DEF Apart
      <3> QED
        BY <3>1, <3>2 DEF Texts
    <2> QED
      BY <2>1
  <1>3. \A n \in 1 .. N, t \in Texts : G[n][t] = (t \o Apart(n)) \o ws[n]
    OBVIOUS
  <1>4. <<>> \in Texts
    BY DEF Texts
  <1> HIDE DEF G
  <1>5. PICK f \in [0 .. N -> Texts] : Links(f, N, <<>>, G)
    BY <1>1, <1>2, <1>4, ChainExists
  <1>6. f[0] = <<>> /\ \A n \in 1 .. N : f[n] = (f[n - 1] \o Apart(n)) \o ws[n]
    <2>1. \A n \in 1 .. N : n - 1 \in 0 .. N
      BY <1>1
    <2> QED
      BY <1>3, <1>5, <2>1 DEF Links
  <1>7. Is(f)
    <2>1. ASSUME NEW n \in 0 .. N
          PROVE  f[n] = IF n = 0 THEN <<>> ELSE f[n - 1] \o (IF n = 1 THEN <<>> ELSE <<Space>>) \o ws[n]
      <3>1. n # 0 => n \in 1 .. N
        BY <1>1
      <3> QED
        BY <1>6, <3>1 DEF Apart
    <2> QED
      BY <2>1
  <1>8. Is(text)
    BY <1>7
  <1>9. Joined(ws) = text[N]
    BY DEF Joined
  <1> HIDE DEF text
  <1>10. text[0] = <<>> /\ \A n \in 1 .. N : text[n] = (text[n - 1] \o Apart(n)) \o ws[n]
    BY <1>1, <1>8 DEF Apart
  <1>11. Follows(text, N, <<>>, G, Texts)
    BY <1>3, <1>10 DEF Follows
  <1> HIDE DEF Is, N
  <1>12. Chained(f, N, <<>>, G, Texts)
    BY <1>5 DEF Chained
  <1>13. Agree(text, f, N)
    BY <1>1, <1>11, <1>12, ChainOnly, Zenon
  <1>14. text[N] = f[N]
    BY <1>1, <1>13 DEF Agree
  <1> QED
    BY <1>1, <1>6, <1>9, <1>14 DEF N

LEMMA JoinedWords ==
  ASSUME NEW ws \in Seq(Spaceless)
  PROVE  Joined(ws) \in Texts /\ Words(Joined(ws)) = ws
  <1>1. PICK f \in [0 .. Len(ws) -> Texts] :
             /\ f[0] = <<>> /\ \A n \in 1 .. Len(ws) : f[n] = (f[n - 1] \o Apart(n)) \o ws[n]
             /\ Joined(ws) = f[Len(ws)]
    BY JoinedIs
  <1>2. Len(ws) \in Nat
    OBVIOUS
  <1> DEFINE S == {n \in 0 .. Len(ws) : Words(f[n]) = SubSeq(ws, 1, n)}
  <1>3. 0 \in S
    <2>1. <<>> \in Texts /\ Begins(<<>>) = {}
      BY DEF Begins, Texts
    <2>2. Words(<<>>) \in Seq(Spaceless) /\ Len(Words(<<>>)) = 0
      BY <2>1, WordsType, FS_EmptySet
    <2>3. Words(<<>>) = <<>>
      BY <2>2
    <2>4. SubSeq(ws, 1, 0) = <<>>
      BY SubSeqEmpty
    <2> QED
      BY <1>1, <1>2, <2>3, <2>4
  <1>4. ASSUME NEW n \in 1 .. Len(ws), n - 1 \in S PROVE n \in S
    <2>1. PICK x, y, u : x = f[n - 1] /\ y = f[n] /\ u = ws[n]
      OBVIOUS
    <2>2. /\ n \in 0 .. Len(ws) /\ n - 1 \in 0 .. Len(ws) /\ x \in Texts /\ u \in Spaceless
          /\ y = (x \o Apart(n)) \o u /\ Words(x) = SubSeq(ws, 1, n - 1)
      BY <1>1, <1>2, <1>4, <2>1
    <2>3. Apart(n) \in {<<>>, <<Space>>} /\ (x = <<>> \/ Apart(n) = <<Space>>)
      BY <1>1, <2>1 DEF Apart
    <2>4. Words(y) = Append(Words(x), u)
      BY <2>2, <2>3, WordsAppend
    <2>5. SubSeq(ws, 1, n) = Append(SubSeq(ws, 1, n - 1), ws[n])
      BY <1>2
    <2> QED
      BY <2>1, <2>2, <2>4, <2>5
  <1>5. \A n \in 0 .. Len(ws) : n \in S
    <2> HIDE DEF S
    <2> QED
      BY <1>2, <1>3, <1>4, Counting
  <1>6. Len(ws) \in 0 .. Len(ws) /\ SubSeq(ws, 1, Len(ws)) = ws
    BY <1>2, SubSeqFull
  <1> QED
    BY <1>1, <1>5, <1>6

(* Words of a text, one after the other, joined again, are no longer than it. *)
LEMMA JoinedFits ==
  ASSUME NEW s \in Texts, NEW ws \in Seq(Spaceless), NEW o \in Nat, o + Len(ws) <= Len(Words(s)),
         \A k \in 1 .. Len(ws) : ws[k] = Words(s)[o + k]
  PROVE  Len(Joined(ws)) <= Len(s)
  <1>1. PICK f \in [0 .. Len(ws) -> Texts] :
             /\ f[0] = <<>> /\ \A n \in 1 .. Len(ws) : f[n] = (f[n - 1] \o Apart(n)) \o ws[n]
             /\ Joined(ws) = f[Len(ws)]
    BY JoinedIs
  <1>2. PICK N, W : N = Len(ws) /\ W = Cardinality(Begins(s))
    OBVIOUS
  <1>3. N \in Nat /\ W \in Nat /\ W \in 0 .. W /\ o + N <= W /\ Len(s) \in Nat /\ s \in Seq(Shown)
    BY <1>2, BeginsType, WordsType DEF Texts
  <1>4. PICK p : Picks(s, p, W)
    BY <1>2, <1>3, PicksAll
  <1>5. Picked(s, p, W)
    BY <1>3, <1>4, PicksWords, Zenon
  <1>6. ASSUME NEW a \in 1 .. W
        PROVE  /\ p[a] \in Begins(s) /\ p[a] \in 1 .. Len(s) /\ p[a] \in Nat
               /\ EndOf(s, p[a]) \in p[a] .. Len(s) /\ EndOf(s, p[a]) \in Nat
               /\ Len(Words(s)[a]) = EndOf(s, p[a]) + 1 - p[a]
    <2>1. PICK i, e : i = p[a] /\ e = EndOf(s, i)
      OBVIOUS
    <2>2. i \in Begins(s) /\ i \in 1 .. Len(s) /\ e \in i .. Len(s)
      BY <1>4, <2>1, EndFacts DEF Picks
    <2>3. i \in Nat \ {0} /\ e \in Nat /\ i <= e + 1 /\ e <= Len(s)
      BY <1>3, <2>2
    <2>4. Words(s)[a] = SubSeq(s, i, e)
      BY <1>5, <2>1 DEF Picked
    <2>5. Len(SubSeq(s, i, e)) = e + 1 - i
      BY <1>3, <2>3, SubSeqIs
    <2> QED
      BY <2>1, <2>2, <2>3, <2>4, <2>5
  <1>7. ASSUME NEW a \in 1 .. W, a + 1 \in 1 .. W PROVE EndOf(s, p[a]) + 2 <= p[a + 1]
    <2>1. PICK i, e, j : i = p[a] /\ e = EndOf(s, i) /\ j = p[a + 1]
      OBVIOUS
    <2>2. /\ i \in Nat /\ e \in Nat /\ j \in Nat /\ i >= 1 /\ i <= e /\ e <= Len(s) /\ j <= Len(s)
          /\ i \in Begins(s) /\ j \in Begins(s)
      BY <1>3, <1>6, <1>7, <2>1
    <2>3. i < j
      <3>1. a < a + 1
        OBVIOUS
      <3> QED
        BY <1>4, <1>7, <2>1, <3>1 DEF Picks
    <2>4. \A k \in i .. e : s[k] # Space
      BY <2>1, <2>2, EndFacts
    <2>5. e = Len(s) \/ s[e + 1] = Space
      BY <2>1, <2>2, EndFacts
    <2>6. s[j] # Space /\ (j = 1 \/ s[j - 1] = Space)
      BY <2>2 DEF Begins
    <2>7. j # e + 1
      <3>1. j = e + 1 => e # Len(s)
        BY <1>3, <2>2
      <3> QED
        BY <2>5, <2>6, <3>1
    <2>8. ~(j <= e)
      <3> SUFFICES ASSUME j <= e PROVE FALSE
        OBVIOUS
      <3>1. j - 1 \in i .. e /\ j # 1
        BY <2>2, <2>3
      <3> QED
        BY <2>4, <2>6, <3>1
    <2> QED
      BY <2>1, <2>2, <2>7, <2>8
  <1> DEFINE S == {n \in 0 .. N : n = 0 \/ Len(f[n]) <= EndOf(s, p[o + n])}
  <1>8. 0 \in S
    BY <1>3
  <1>9. ASSUME NEW n \in 1 .. N, n - 1 \in S PROVE n \in S
    <2>1. PICK x, y, u : x = f[n - 1] /\ y = f[n] /\ u = ws[n]
      OBVIOUS
    <2>2. n - 1 \in 0 .. N /\ n \in 0 .. N /\ n \in Nat /\ o + n \in 1 .. W
      BY <1>3
    <2>3. x \in Texts /\ u \in Spaceless /\ y = (x \o Apart(n)) \o u /\ Len(x) \in Nat
      <3>1. x \in Texts
        BY <1>1, <1>2, <2>1, <2>2
      <3>2. n \in 1 .. Len(ws)
        BY <1>2
      <3>3. u \in Spaceless /\ y = (x \o Apart(n)) \o u
        <4>1. \A k \in 1 .. Len(ws) : ws[k] \in Spaceless
          OBVIOUS
        <4>2. ws[n] \in Spaceless
          BY <3>2, <4>1, Zenon
        <4>3. f[n] = (f[n - 1] \o Apart(n)) \o ws[n]
          BY <1>1, <3>2, Zenon
        <4> QED
          BY <2>1, <4>2, <4>3, Zenon
      <3> QED
        BY <3>1, <3>3 DEF Texts
    <2>4. Apart(n) \in {<<>>, <<Space>>} /\ (x = <<>> \/ Apart(n) = <<Space>>)
      BY <1>1, <2>1 DEF Apart
    <2>5. Len(y) = Len(x) + Len(Apart(n)) + Len(u)
      BY <2>3, <2>4, WordsAppend
    <2>6. PICK i, e : i = p[o + n] /\ e = EndOf(s, i)
      OBVIOUS
    <2>7. u = Words(s)[o + n]
      BY <1>2, <2>1
    <2>8. i \in Nat /\ e \in Nat /\ i >= 1 /\ i <= e /\ Len(u) = e + 1 - i
      <3>1. i \in 1 .. Len(s) /\ e \in i .. Len(s) /\ Len(u) = e + 1 - i
        BY <1>6, <2>2, <2>6, <2>7
      <3> QED
        BY <1>3, <3>1
    <2>9. CASE n = 1
      <3>1. Len(x) = 0 /\ Len(Apart(n)) = 0
        BY <1>1, <2>1, <2>9 DEF Apart
      <3> QED
        <4>1. Len(y) <= e
          BY <2>5, <2>8, <3>1
        <4>2. f[n] = y /\ EndOf(s, p[o + n]) = e
          BY <2>1, <2>6
        <4> QED
          BY <2>2, <4>1, <4>2
    <2>10. CASE n # 1
      <3>1. PICK d, b : d = p[o + (n - 1)] /\ b = EndOf(s, d)
        OBVIOUS
      <3>2. o + (n - 1) \in 1 .. W /\ (o + (n - 1)) + 1 = o + n
        BY <1>3, <2>2, <2>10
      <3>3. b + 2 <= i /\ b \in Nat
        BY <1>6, <1>7, <2>2, <2>6, <3>1, <3>2
      <3>4. Len(x) <= b
        BY <1>9, <2>1, <2>2, <2>10, <3>1
      <3>5. Len(Apart(n)) = 1
        BY <2>10 DEF Apart
      <3>6. Len(y) <= e
        BY <2>3, <2>5, <2>8, <3>3, <3>4, <3>5
      <3> QED
        BY <2>1, <2>2, <2>6, <3>6
    <2> QED
      BY <2>9, <2>10
  <1>10. \A n \in 0 .. N : n \in S
    <2> HIDE DEF S
    <2> QED
      BY <1>3, <1>8, <1>9, Counting
  <1>11. N \in S
    BY <1>3, <1>10
  <1>12. CASE N = 0
    BY <1>1, <1>2, <1>3, <1>12
  <1>13. CASE N # 0
    <2>1. o + N \in 1 .. W
      BY <1>3, <1>13
    <2>2. EndOf(s, p[o + N]) \in p[o + N] .. Len(s) /\ p[o + N] \in Nat
      BY <1>6, <2>1
    <2>3. Len(f[N]) <= EndOf(s, p[o + N]) /\ Len(f[N]) \in Nat
      BY <1>1, <1>2, <1>3, <1>11, <1>13 DEF Texts
    <2> QED
      BY <1>1, <1>2, <1>3, <2>2, <2>3
  <1> QED
    BY <1>12, <1>13

-----------------------------------------------------------------------------
(* The prompt over its steps.  There is always a line s: the editor holds it *)
(* and nothing else, and while keys are read the screen ends with the prompt *)
(* and it.  When Enter has been pressed it is what was seen.                 *)
Holds(s) ==
  /\ le.buf = LineOf(s) /\ le.len = Len(s) /\ le = [buf |-> le.buf, len |-> le.len]
  /\ at = "key" => EndsWith(screen, Prompt \o s)
  /\ at = "exec" => seen = s
  /\ at = "prompt" => s = <<>>

(* What a command has done, from the line seen alone.                        *)
Ran ==
  LET argv == Args(LineOf(seen))
  IN  /\ last.argv = argv
      /\ argv # <<>> /\ argv[1] = EchoName => last.out = Joined(Tail(argv)) \o <<NL>>
      /\ Len(argv) > 2 /\ argv[1] = WriteName => last.out = WriteText(Tail(Tail(argv)))
      /\ sector # NoSector =>
           /\ argv # <<>>
           /\ \/ argv[1] = RdsectName /\ sector = RdsectAsks(argv)
              \/ argv[1] = WrsectName /\ sector = WrsectAsks(argv)

PInv ==
  /\ screen \in Screens /\ Blank(screen) /\ at \in {"prompt", "key", "exec"}
  /\ seen \in Lines /\ \E s \in Lines : Holds(s)
  /\ at = "prompt" => Ran

LEMMA PromptFacts ==
  /\ Prompt \in Texts /\ Prompt \in Seq(Shown) /\ Len(Prompt) \in Nat
  /\ \A s \in Lines : /\ Prompt \o s \in Texts /\ Len(Prompt \o s) = Len(Prompt) + Len(s)
                      /\ Len(Prompt) + Len(s) <= (ROWS - 1) * COLS
                      /\ Prompt \o s # <<>> /\ s \in Texts /\ s \in Seq(Shown) /\ Len(s) \in Nat
  /\ <<>> \in Lines
  <1>1. Prompt \in Seq(Shown) /\ Len(Prompt) \in Nat \ {0}
    BY PromptAssumption
  <1>2. Len(Prompt) + LINE_MAX - 1 <= (ROWS - 1) * COLS
    BY PromptAssumption
  <1>3. ASSUME NEW s \in Lines
        PROVE  /\ Prompt \o s \in Texts /\ Len(Prompt \o s) = Len(Prompt) + Len(s)
               /\ Len(Prompt) + Len(s) <= (ROWS - 1) * COLS
               /\ Prompt \o s # <<>> /\ s \in Texts /\ s \in Seq(Shown) /\ Len(s) \in Nat
    <2>1. s \in Seq(Shown) /\ Len(s) \in Nat /\ Len(s) < LINE_MAX /\ s \in Texts
      BY DEF Lines, Texts
    <2>2. Prompt \o s \in Seq(Shown) /\ Len(Prompt \o s) = Len(Prompt) + Len(s)
      BY <1>1, <2>1
    <2>3. Len(Prompt) + Len(s) <= (ROWS - 1) * COLS
      BY <1>1, <1>2, <2>1, LineFacts, SizeFacts
    <2>4. Prompt \o s # <<>>
      BY <1>1, <2>1, <2>2
    <2> QED
      BY <2>1, <2>2, <2>3, <2>4 DEF Texts
  <1>4. <<>> \in Lines
    BY LineFacts DEF Lines, Texts
  <1> QED
    BY <1>1, <1>3, <1>4 DEF Texts

LEMMA EchoedNone ==
  ASSUME NEW v \in Screens
  PROVE  Echoed(v, <<>>) = v
  <1>1. PICK s : s = <<>>
    OBVIOUS
  <1>2. s \in Seq(Chars) /\ Len(s) = 0
    BY <1>1
  <1>3. PICK f \in [0 .. Len(s) -> Screens] :
             /\ f[0] = v /\ \A n \in 1 .. Len(s) : f[n] = VgaPutc(f[n - 1], s[n])
             /\ Echoed(v, s) = f[Len(s)]
    BY <1>2, EchoedIs
  <1> QED
    BY <1>1, <1>2, <1>3

LEMMA PromptStarts == PInit => PInv
  <1> SUFFICES ASSUME PInit PROVE PInv
    OBVIOUS
  <1>1. PICK r \in Rows0, s \in Typed0 :
             /\ screen = Echoed([cells |-> Cleared, cursor |-> r * COLS], Prompt \o s)
             /\ le = [buf |-> [k \in Places |-> IF k < Len(s) THEN s[k + 1] ELSE NUL], len |-> Len(s)]
    BY DEF PInit
  <1>2. s \in Lines
    BY PromptAssumption DEF Lines, Texts
  <1>3. PICK v : v = [cells |-> Cleared, cursor |-> r * COLS]
    OBVIOUS
  <1>4. v \in Screens /\ Blank(v) /\ EndsWith(v, <<>>)
    <2>1. r \in Nat /\ r <= ROWS - 1 /\ ROWS - 1 \in Nat /\ COLS \in Nat
      BY PromptAssumption, SizeFacts
    <2>2. r * COLS \in Nat /\ r * COLS <= (ROWS - 1) * COLS
      BY <2>1, ProductGrows
    <2>3. r * COLS \in Cells
      BY <2>2, SizeFacts DEF Cells
    <2>4. Cleared \in [Cells -> Shown] /\ \A k \in Cells : Cleared[k] = Space
      BY DEF Cleared, Shown
    <2>5. v \in Screens /\ Blank(v)
      BY <1>3, <2>3, <2>4 DEF Screens, Blank
    <2>6. EndsWith(v, <<>>)
      BY <1>3, <2>2 DEF EndsWith
    <2> QED
      BY <2>5, <2>6
  <1>5. Prompt \o s \in Seq(Shown) /\ Prompt \o s \in Seq(Shown \union {NL}) /\ <<>> \in Texts
    BY <1>2, PromptFacts DEF Texts
  <1>6. screen \in Screens /\ Blank(screen)
    BY <1>1, <1>3, <1>4, <1>5, EchoedBlank
  <1>7. EndsWith(screen, Prompt \o s)
    <2>1. Len(<<>>) + Len(Prompt \o s) <= (ROWS - 1) * COLS /\ Prompt \o s \in Texts
      BY <1>2, PromptFacts
    <2>2. EndsWith(Echoed(v, Prompt \o s), <<>> \o (Prompt \o s))
      BY <1>4, <1>5, <2>1, EchoedEnds
    <2>3. <<>> \o (Prompt \o s) = Prompt \o s
      BY <1>5
    <2> QED
      BY <1>1, <1>3, <2>2, <2>3
  <1>8. at = "key" /\ seen = <<>>
    BY DEF PInit
  <1>9. Holds(s)
    <2>1. le.buf = LineOf(s) /\ le.len = Len(s) /\ le = [buf |-> le.buf, len |-> le.len]
      BY <1>1 DEF LineOf
    <2> QED
      BY <1>7, <1>8, <2>1 DEF Holds
  <1> QED
    BY <1>2, <1>6, <1>8, <1>9, PromptFacts DEF PInv

LEMMA PromptShown ==
  ASSUME PInv, ShowPrompt
  PROVE  PInv'
  <1>1. PICK s \in Lines : Holds(s)
    BY DEF PInv
  <1>2. /\ at = "prompt" /\ screen' = Echoed(screen, Prompt) /\ at' = "key" /\ le' = le /\ seen' = seen
        /\ s = <<>>
    BY <1>1 DEF ShowPrompt, Holds
  <1>3. screen \in Screens /\ Blank(screen) /\ seen \in Lines
    BY DEF PInv
  <1>4. screen' \in Screens /\ Blank(screen')
    <2>1. Prompt \in Seq(Shown \union {NL})
      BY PromptFacts
    <2> QED
      BY <1>2, <1>3, <2>1, EchoedBlank
  <1>5. EndsWith(screen', Prompt \o s)
    <2>1. EndsWith(screen, <<>>) /\ <<>> \in Texts
      BY <1>3 DEF EndsWith, Texts, Screens, Cells
    <2>2. Len(<<>>) + Len(Prompt) <= (ROWS - 1) * COLS
      <3>1. Len(Prompt) + Len(s) <= (ROWS - 1) * COLS /\ Len(s) = 0
        BY <1>2, PromptFacts
      <3> QED
        BY <1>2, <3>1, PromptFacts
    <2>3. EndsWith(Echoed(screen, Prompt), <<>> \o Prompt)
      BY <1>3, <2>1, <2>2, EchoedEnds, PromptFacts
    <2>4. <<>> \o Prompt = Prompt /\ Prompt \o <<>> = Prompt
      BY PromptFacts
    <2> QED
      BY <1>2, <2>3, <2>4
  <1>6. Holds(s)'
    BY <1>1, <1>2, <1>5 DEF Holds
  <1> QED
    BY <1>2, <1>3, <1>4, <1>6 DEF PInv

(* What a key makes of the line held and of the screen.                      *)
Keyed(s, c, t, v) ==
  /\ t \in Lines /\ v \in Screens /\ Blank(v)
  /\ LineeditPutc(le, c).line.buf = LineOf(t) /\ LineeditPutc(le, c).line.len = Len(t)
  /\ LineeditPutc(le, c).line =
       [buf |-> LineeditPutc(le, c).line.buf, len |-> LineeditPutc(le, c).line.len]
  /\ v = Echoed(screen, LineeditPutc(le, c).echo)
  /\ c # NL => EndsWith(v, Prompt \o t)
  /\ c = NL => t = s

LEMMA KeySame ==
  ASSUME PInv, NEW s \in Lines, Holds(s), at = "key", NEW c, LineeditPutc(le, c) = [line |-> le, echo |-> <<>>],
         c # NL
  PROVE  Keyed(s, c, s, screen)
  <1>1. screen \in Screens /\ Blank(screen)
    BY DEF PInv
  <1>2. Echoed(screen, <<>>) = screen
    BY <1>1, EchoedNone
  <1> QED
    BY <1>1, <1>2 DEF Keyed, Holds

LEMMA KeyErases ==
  ASSUME PInv, NEW s \in Lines, Holds(s), at = "key"
  PROVE  \E t, v : Keyed(s, BS, t, v)
  <1>1. /\ screen \in Screens /\ Blank(screen) /\ EndsWith(screen, Prompt \o s)
        /\ le.buf = LineOf(s) /\ le.len = Len(s) /\ le = [buf |-> le.buf, len |-> le.len]
    BY DEF PInv, Holds
  <1>2. LineeditPutc(le, BS) = Erase(le) /\ BS # NL
    <2>1. BS \notin Shown /\ BS # NL
      BY VgaAssumption DEF Shown
    <2> QED
      BY <2>1 DEF LineeditPutc
  <1>3. s \in Seq(Shown) /\ Len(s) \in Nat /\ Len(s) < LINE_MAX
    BY DEF Lines, Texts
  <1>4. CASE Len(s) = 0
    <2>1. LineeditPutc(le, BS) = [line |-> le, echo |-> <<>>]
      BY <1>1, <1>2, <1>4 DEF Erase
    <2> QED
      BY <1>2, <2>1, KeySame
  <1>5. CASE Len(s) # 0
    <2>1. PICK t, v : t = SubSeq(s, 1, Len(s) - 1) /\ v = Echoed(screen, EraseEcho)
      OBVIOUS
    <2>2. t \in Seq(Shown) /\ Len(t) = Len(s) - 1 /\ t \in Lines /\ \A k \in 1 .. Len(t) : t[k] = s[k]
      <3>0. PICK n : n = Len(s) - 1
        OBVIOUS
      <3>1. n \in Nat /\ 1 \in Nat \ {0} /\ 1 <= n + 1 /\ n <= Len(s) /\ n < LINE_MAX
        BY <1>3, <1>5, <3>0, LineFacts
      <3>2. t = [k \in 1 .. n + 1 - 1 |-> s[1 + k - 1]] /\ t \in Seq(Shown) /\ Len(t) = n + 1 - 1
        BY <1>3, <2>1, <3>0, <3>1, SubSeqIs
      <3>3. n + 1 - 1 = n /\ \A k \in 1 .. n : 1 + k - 1 = k
        BY <3>1
      <3>4. Len(t) = n /\ \A k \in 1 .. n : t[k] = s[k]
        BY <3>2, <3>3
      <3>5. t \in Lines
        BY <3>1, <3>2, <3>4 DEF Lines, Texts
      <3> QED
        BY <3>0, <3>2, <3>4, <3>5
    <2>3. Erase(le) = [line |-> [buf |-> [le.buf EXCEPT ![le.len - 1] = NUL], len |-> le.len - 1],
                       echo |-> EraseEcho]
      BY <1>1, <1>5 DEF Erase
    <2>4. [le.buf EXCEPT ![le.len - 1] = NUL] = LineOf(t)
      <3>1. PICK n \in Nat : Len(s) = n + 1 /\ Len(t) = n /\ le.len - 1 = n
        <4>1. Len(s) - 1 \in Nat /\ Len(s) = (Len(s) - 1) + 1
          BY <1>3, <1>5
        <4> QED
          BY <1>1, <2>2, <4>1
      <3>2. n \in Places
        BY <1>3, <3>1, LineFacts
      <3>3. ASSUME NEW k \in Places PROVE [LineOf(s) EXCEPT ![n] = NUL][k] = LineOf(t)[k]
        <4>1. k \in Nat /\ LineOf(s)[k] = (IF k < Len(s) THEN s[k + 1] ELSE NUL)
              /\ LineOf(t)[k] = (IF k < Len(t) THEN t[k + 1] ELSE NUL)
          BY LineFacts DEF LineOf
        <4>2. CASE k = n
          BY <3>1, <3>2, <4>1, <4>2 DEF LineOf
        <4>3. CASE k # n
          <5>1. [LineOf(s) EXCEPT ![n] = NUL][k] = LineOf(s)[k]
            BY <4>3 DEF LineOf
          <5>2. k < n + 1 => k < n /\ k + 1 \in 1 .. n
            BY <4>1, <4>3
          <5> QED
            BY <2>2, <3>1, <4>1, <5>1, <5>2
        <4> QED
          BY <4>2, <4>3
      <3>4. [LineOf(s) EXCEPT ![n] = NUL] = LineOf(t)
        BY <3>3 DEF LineOf
      <3> QED
        BY <1>1, <3>1, <3>4
    <2>5. LineeditPutc(le, BS) = [line |-> [buf |-> LineOf(t), len |-> Len(t)], echo |-> EraseEcho]
      BY <1>1, <1>2, <2>2, <2>3, <2>4
    <2>6. v \in Screens /\ Blank(v) /\ EndsWith(v, SubSeq(Prompt \o s, 1, Len(Prompt \o s) - 1))
      BY <1>1, <2>1, Erased, PromptFacts
    <2>7. SubSeq(Prompt \o s, 1, Len(Prompt \o s) - 1) = Prompt \o t
      <3>1. PICK a, b, d : a = Prompt \o s /\ b = Prompt \o t /\ d = Len(a) - 1
        OBVIOUS
      <3>2. /\ a \in Seq(Shown) /\ Len(a) = Len(Prompt) + Len(s) /\ Prompt \in Seq(Shown) /\ Len(Prompt) \in Nat
            /\ b \in Seq(Shown) /\ Len(b) = Len(Prompt) + Len(t) /\ d = Len(Prompt) + Len(t) /\ d \in Nat /\ d <= Len(a)
        <4>1. a \in Seq(Shown) /\ Len(a) = Len(Prompt) + Len(s) /\ Prompt \in Seq(Shown) /\ Len(Prompt) \in Nat
          BY <1>3, <3>1, PromptFacts
        <4>2. b \in Seq(Shown) /\ Len(b) = Len(Prompt) + Len(t) /\ Len(t) \in Nat
          <5>1. Prompt \o t \in Texts /\ Len(Prompt \o t) = Len(Prompt) + Len(t) /\ Len(t) \in Nat
            BY <2>2, PromptFacts
          <5> QED
            BY <3>1, <5>1 DEF Texts
        <4> QED
          BY <1>3, <2>2, <3>1, <4>1, <4>2
      <3>3. SubSeq(a, 1, d) \in Seq(Shown) /\ Len(SubSeq(a, 1, d)) = d + 1 - 1
            /\ SubSeq(a, 1, d) = [k \in 1 .. d + 1 - 1 |-> a[1 + k - 1]]
        BY <3>2, SubSeqIs
      <3>4. ASSUME NEW k \in 1 .. d PROVE SubSeq(a, 1, d)[k] = b[k]
        <4>1. d + 1 - 1 = d /\ 1 + k - 1 = k /\ k \in Nat /\ k >= 1 /\ k <= d
          BY <3>2
        <4>2. SubSeq(a, 1, d)[k] = a[k]
          BY <3>3, <4>1
        <4>3. a[k] = IF k <= Len(Prompt) THEN Prompt[k] ELSE s[k - Len(Prompt)]
          <5>1. k \in 1 .. Len(Prompt) + Len(s)
            BY <1>3, <2>2, <3>2, <4>1
          <5> QED
            BY <1>3, <3>1, <3>2, <5>1, ConcatProperties
        <4>4. b[k] = IF k <= Len(Prompt) THEN Prompt[k] ELSE t[k - Len(Prompt)]
          <5>1. k \in 1 .. Len(Prompt) + Len(t)
            BY <3>2, <4>1
          <5> QED
            BY <2>2, <3>1, <3>2, <5>1, ConcatProperties
        <4>5. ~(k <= Len(Prompt)) => k - Len(Prompt) \in 1 .. Len(t)
          BY <2>2, <3>2, <4>1
        <4> QED
          BY <2>2, <4>2, <4>3, <4>4, <4>5
      <3>5. Len(SubSeq(a, 1, d)) = Len(b) /\ Len(SubSeq(a, 1, d)) = d
        BY <3>2, <3>3
      <3>6. SubSeq(a, 1, d) = b
        BY <3>2, <3>3, <3>4, <3>5, SeqEqual
      <3> QED
        BY <3>1, <3>6
    <2>8. Keyed(s, BS, t, v)
      <3>1. PICK q : q = LineeditPutc(le, BS)
        OBVIOUS
      <3>2. /\ q.line.buf = LineOf(t) /\ q.line.len = Len(t) /\ q.line = [buf |-> q.line.buf, len |-> q.line.len]
            /\ q.echo = EraseEcho
        BY <2>5, <3>1
      <3> QED
        BY <1>2, <2>1, <2>2, <2>6, <2>7, <3>1, <3>2 DEF Keyed
    <2> QED
      BY <2>8
  <1> QED
    BY <1>4, <1>5

LEMMA KeyTypes ==
  ASSUME PInv, NEW s \in Lines, Holds(s), at = "key", NEW c \in Shown
  PROVE  \E t, v : Keyed(s, c, t, v)
  <1>1. /\ screen \in Screens /\ Blank(screen) /\ EndsWith(screen, Prompt \o s)
        /\ le.buf = LineOf(s) /\ le.len = Len(s) /\ le = [buf |-> le.buf, len |-> le.len]
    BY DEF PInv, Holds
  <1>2. LineeditPutc(le, c) = Type(le, c) /\ c # NL
    <2>1. c # BS /\ c # NL
      BY VgaAssumption DEF Shown
    <2> QED
      BY <2>1 DEF LineeditPutc
  <1>3. s \in Seq(Shown) /\ Len(s) \in Nat /\ Len(s) < LINE_MAX /\ LINE_MAX \in Nat
    BY LineFacts DEF Lines, Texts
  <1>4. CASE ~(Len(s) + 1 < LINE_MAX)
    <2>1. LineeditPutc(le, c) = [line |-> le, echo |-> <<>>]
      BY <1>1, <1>2, <1>4 DEF Type
    <2> QED
      BY <1>2, <2>1, KeySame
  <1>5. CASE Len(s) + 1 < LINE_MAX
    <2>1. PICK t, v, n : t = Append(s, c) /\ v = Echoed(screen, <<c>>) /\ n = Len(s)
      OBVIOUS
    <2>2. /\ t \in Seq(Shown) /\ Len(t) = n + 1 /\ t[n + 1] = c /\ \A k \in 1 .. n : t[k] = s[k]
      BY <1>3, <2>1, AppendIs
    <2>3. t \in Lines /\ n \in Nat /\ n \in Places /\ n + 1 \in Places
      <3>1. n \in Places /\ n + 1 \in Places
        BY <1>3, <1>5, <2>1, LineFacts
      <3> QED
        BY <1>3, <1>5, <2>1, <2>2, <3>1 DEF Lines, Texts
    <2>4. Type(le, c) = [line |-> [buf |-> [le.buf EXCEPT ![n] = c, ![n + 1] = NUL], len |-> n + 1],
                         echo |-> <<c>>]
      BY <1>1, <1>5, <2>1 DEF Type
    <2>5. [le.buf EXCEPT ![n] = c, ![n + 1] = NUL] = LineOf(t)
      <3>1. PICK b : b = [LineOf(s) EXCEPT ![n] = c, ![n + 1] = NUL]
        OBVIOUS
      <3>2. ASSUME NEW k \in Places PROVE b[k] = LineOf(t)[k]
        <4>1. k \in Nat /\ LineOf(s)[k] = (IF k < n THEN s[k + 1] ELSE NUL)
              /\ LineOf(t)[k] = (IF k < n + 1 THEN t[k + 1] ELSE NUL)
          BY <2>1, <2>2, LineFacts DEF LineOf
        <4>2. b[k] = IF k = n + 1 THEN NUL ELSE IF k = n THEN c ELSE LineOf(s)[k]
          BY <2>3, <3>1 DEF LineOf
        <4>3. CASE k < n
          <5>1. k + 1 \in 1 .. n /\ k # n /\ k # n + 1 /\ k < n + 1
            BY <2>3, <4>1, <4>3
          <5> QED
            BY <2>2, <4>1, <4>2, <4>3, <5>1
        <4>4. CASE k = n
          BY <2>2, <2>3, <4>1, <4>2, <4>4
        <4>5. CASE k > n
          <5>1. ~(k < n) /\ ~(k < n + 1) /\ k # n
            BY <2>3, <4>1, <4>5
          <5> QED
            BY <4>1, <4>2, <5>1
        <4> QED
          BY <2>3, <4>1, <4>3, <4>4, <4>5
      <3>3. b = LineOf(t)
        BY <3>1, <3>2 DEF LineOf
      <3> QED
        BY <1>1, <3>1, <3>3
    <2>6. v \in Screens /\ Blank(v) /\ EndsWith(v, (Prompt \o s) \o <<c>>)
      <3>1. PICK u : u = <<c>>
        OBVIOUS
      <3>2. u \in Texts /\ u \in Seq(Shown \union {NL}) /\ Len(u) = 1
        BY <3>1 DEF Texts
      <3>3. Prompt \o s \in Texts /\ Len(Prompt \o s) + Len(u) <= (ROWS - 1) * COLS
        <4>1. Len(Prompt) + Len(t) <= (ROWS - 1) * COLS /\ Len(Prompt) \in Nat /\ Prompt \o s \in Texts
              /\ Len(Prompt \o s) = Len(Prompt) + Len(s)
          BY <2>3, PromptFacts
        <4> QED
          BY <1>3, <2>1, <2>2, <3>2, <4>1, SizeFacts
      <3>4. Echoed(screen, u) \in Screens /\ Blank(Echoed(screen, u))
        BY <1>1, <3>2, EchoedBlank
      <3>5. EndsWith(Echoed(screen, u), (Prompt \o s) \o u)
        BY <1>1, <3>2, <3>3, EchoedEnds
      <3> QED
        BY <2>1, <3>1, <3>4, <3>5
    <2>7. (Prompt \o s) \o <<c>> = Prompt \o t
      <3>1. Append(s, c) = s \o <<c>> /\ <<c>> \in Seq(Shown)
        BY <1>3
      <3>2. (Prompt \o s) \o <<c>> = Prompt \o (s \o <<c>>)
        <4>1. Prompt \in Seq(Shown)
          BY PromptFacts
        <4> QED
          BY <1>3, <3>1, <4>1, ConcatAssociative
      <3> QED
        BY <2>1, <3>1, <3>2
    <2>8. Keyed(s, c, t, v)
      <3>1. PICK q : q = LineeditPutc(le, c)
        OBVIOUS
      <3>2. /\ q.line.buf = LineOf(t) /\ q.line.len = Len(t) /\ q.line = [buf |-> q.line.buf, len |-> q.line.len]
            /\ q.echo = <<c>>
        BY <1>2, <2>2, <2>4, <2>5, <3>1
      <3> QED
        BY <1>2, <2>1, <2>3, <2>6, <2>7, <3>1, <3>2 DEF Keyed
    <2> QED
      BY <2>8
  <1> QED
    BY <1>4, <1>5

LEMMA KeyEnters ==
  ASSUME PInv, NEW s \in Lines, Holds(s), at = "key"
  PROVE  \E t, v : Keyed(s, NL, t, v)
  <1>1. LineeditPutc(le, NL) = [line |-> le, echo |-> <<NL>>]
    <2>1. NL \notin Shown /\ NL # BS
      BY VgaAssumption DEF Shown
    <2> QED
      BY <2>1 DEF LineeditPutc
  <1>2. PICK v : v = Echoed(screen, <<NL>>)
    OBVIOUS
  <1>3. v \in Screens /\ Blank(v)
    <2>1. <<NL>> \in Seq(Shown \union {NL}) /\ screen \in Screens /\ Blank(screen)
      BY DEF PInv
    <2> QED
      BY <1>2, <2>1, EchoedBlank
  <1>4. Keyed(s, NL, s, v)
    <2>1. PICK q : q = LineeditPutc(le, NL)
      OBVIOUS
    <2>2. q.line = le /\ q.echo = <<NL>>
      BY <1>1, <2>1
    <2> QED
      BY <1>2, <1>3, <2>1, <2>2 DEF Keyed, Holds
  <1> QED
    BY <1>4

LEMMA KeyDoes ==
  ASSUME PInv, NEW s \in Lines, Holds(s), at = "key", NEW c
  PROVE  \E t, v : Keyed(s, c, t, v)
  <1>1. CASE c = BS
    BY <1>1, KeyErases
  <1>2. CASE c \in Shown
    BY <1>2, KeyTypes
  <1>3. CASE c = NL
    BY <1>3, KeyEnters
  <1>4. CASE c \notin Shown /\ c # NL /\ c # BS
    <2>1. LineeditPutc(le, c) = [line |-> le, echo |-> <<>>]
      BY <1>4 DEF LineeditPutc
    <2>2. Keyed(s, c, s, screen)
      BY <1>4, <2>1, KeySame
    <2> QED
      BY <2>2
  <1> QED
    BY <1>1, <1>2, <1>3, <1>4

(* The end of the screen, as long as the line, is the line.                  *)
LEMMA BehindIs ==
  ASSUME NEW t \in Texts, EndsWith(screen, t), NEW n \in Nat, n = Len(t), screen.cursor \in Nat
  PROVE  Behind(n) = t
  <1>1. t \in Seq(Shown) /\ \A k \in 1 .. n : screen.cells[screen.cursor - n + k - 1] = t[k]
    BY DEF EndsWith, Texts
  <1>2. t = [k \in 1 .. n |-> t[k]]
    BY <1>1
  <1> QED
    BY <1>1, <1>2 DEF Behind

LEMMA EndsShorter ==
  ASSUME NEW v \in Screens, NEW p \in Texts, NEW s \in Texts, EndsWith(v, p \o s)
  PROVE  EndsWith(v, s)
  <1>1. PICK a, b, d : a = Len(p) /\ b = Len(s) /\ d = v.cursor
    OBVIOUS
  <1>2. a \in Nat /\ b \in Nat /\ d \in Nat /\ p \in Seq(Shown) /\ s \in Seq(Shown) /\ Len(p \o s) = a + b
    BY <1>1 DEF Texts, Screens, Cells
  <1>3. a + b <= d /\ \A k \in 1 .. a + b : v.cells[d - (a + b) + k - 1] = (p \o s)[k]
    BY <1>1, <1>2 DEF EndsWith
  <1>4. ASSUME NEW k \in 1 .. b PROVE v.cells[d - b + k - 1] = s[k]
    <2>1. a + k \in 1 .. a + b /\ d - (a + b) + (a + k) - 1 = d - b + k - 1 /\ k \in Nat
      BY <1>2
    <2>2. (p \o s)[a + k] = s[k]
      BY <1>1, <1>2, <2>1
    <2> QED
      BY <1>3, <2>1, <2>2
  <1> QED
    BY <1>1, <1>2, <1>3, <1>4 DEF EndsWith

LEMMA PromptKeyed ==
  ASSUME PInv, NEW c \in Chars, Key(c)
  PROVE  PInv'
  <1>1. PICK s \in Lines : Holds(s)
    BY DEF PInv
  <1>2. /\ at = "key" /\ le' = LineeditPutc(le, c).line /\ screen' = Echoed(screen, LineeditPutc(le, c).echo)
        /\ at' = (IF c = NL THEN "exec" ELSE "key")
        /\ seen' = (IF c = NL THEN Behind(le.len) ELSE seen)
    BY DEF Key
  <1>3. PICK t, v : Keyed(s, c, t, v)
    BY <1>1, <1>2, KeyDoes
  <1>4. /\ screen' \in Screens /\ Blank(screen') /\ t \in Lines
        /\ le'.buf = LineOf(t) /\ le'.len = Len(t) /\ le' = [buf |-> le'.buf, len |-> le'.len]
        /\ c # NL => EndsWith(screen', Prompt \o t)
        /\ c = NL => t = s
    BY <1>2, <1>3 DEF Keyed
  <1>5. Behind(le.len) = s /\ seen \in Lines
    <2>1. screen \in Screens /\ screen.cursor \in Nat /\ EndsWith(screen, Prompt \o s) /\ seen \in Lines
      BY <1>1, <1>2 DEF PInv, Holds, Screens, Cells
    <2>2. EndsWith(screen, s) /\ s \in Texts /\ Len(s) \in Nat /\ le.len = Len(s)
      BY <1>1, <2>1, EndsShorter, PromptFacts DEF Holds
    <2> QED
      BY <2>1, <2>2, BehindIs
  <1>6. at' \in {"key", "exec"} /\ (at' = "key" <=> c # NL) /\ (at' = "exec" => c = NL /\ seen' = t)
    BY <1>2, <1>4, <1>5
  <1>7. Holds(t)'
    BY <1>4, <1>6 DEF Holds
  <1>8. seen' \in Lines /\ at' # "prompt"
    BY <1>2, <1>5, <1>6
  <1> QED
    BY <1>4, <1>6, <1>7, <1>8 DEF PInv

-----------------------------------------------------------------------------
(* The words of a command, from the line.                                    *)
Took(s) == Min({Len(Words(s)), SHELL_MAX_ARGS})

LEMMA ArgvType ==
  ASSUME NEW s \in Lines, NEW argv, argv = Args(LineOf(s))
  PROVE  /\ argv = SubSeq(Words(s), 1, Took(s)) /\ argv \in Seq(Spaceless)
         /\ Len(argv) = Took(s) /\ Took(s) \in Nat /\ Took(s) <= Len(Words(s))
         /\ \A k \in 1 .. Len(argv) : argv[k] = Words(s)[k] /\ argv[k] \in Texts
  <1>1. PICK w, n : w = Words(s) /\ n = Took(s)
    OBVIOUS
  <1>2. w \in Seq(Spaceless) /\ Len(w) \in Nat
    <2>1. s \in Texts
      BY DEF Lines
    <2>2. w \in Seq(Spaceless)
      BY <1>1, <2>1, WordsType
    <2> QED
      BY <2>2
  <1>3. n \in Nat /\ n <= Len(w)
    <2>1. SHELL_MAX_ARGS \in Nat
      BY LineFacts
    <2>2. Min({Len(w), SHELL_MAX_ARGS}) = IF Len(w) <= SHELL_MAX_ARGS THEN Len(w) ELSE SHELL_MAX_ARGS
      BY <1>2, <2>1, MinOfTwo
    <2> QED
      BY <1>1, <1>2, <2>1, <2>2 DEF Took
  <1>4. argv = SubSeq(w, 1, n)
    BY <1>1, ArgsAre DEF Took
  <1>5. 1 \in Nat \ {0} /\ 1 <= n + 1
    BY <1>3
  <1>6. argv = [k \in 1 .. n + 1 - 1 |-> w[1 + k - 1]] /\ argv \in Seq(Spaceless) /\ Len(argv) = n + 1 - 1
    BY <1>2, <1>3, <1>4, <1>5, SubSeqIs
  <1>7. n + 1 - 1 = n /\ \A k \in 1 .. n : 1 + k - 1 = k
    BY <1>3
  <1>8. Len(argv) = n /\ \A k \in 1 .. n : argv[k] = w[k]
    BY <1>6, <1>7
  <1>9. ASSUME NEW k \in 1 .. Len(argv) PROVE argv[k] \in Spaceless
    BY <1>6, ElementOfSeq, Zenon
  <1>10. \A u \in Spaceless : u \in Texts
    <2> TAKE u \in Spaceless
    <2>1. u \in Seq(Shown \ {Space})
      BY DEF Spaceless
    <2> QED
      BY <2>1 DEF Texts
  <1> QED
    BY <1>1, <1>3, <1>4, <1>6, <1>8, <1>9, <1>10

LEMMA TailType ==
  ASSUME NEW A, NEW q \in Seq(A), q # <<>>
  PROVE  Tail(q) \in Seq(A) /\ Len(Tail(q)) = Len(q) - 1 /\ \A k \in 1 .. Len(q) - 1 : Tail(q)[k] = q[k + 1]
  <1>1. Tail(q) \in Seq(A) /\ Len(Tail(q)) = Len(q) - 1 /\ \A i \in 1 .. Len(Tail(q)) : Tail(q)[i] = q[i + 1]
    BY HeadTailProperties
  <1> QED
    BY <1>1

LEMMA LineEnded ==
  ASSUME NEW t \in Texts
  PROVE  t \o <<NL>> \in Seq(Shown \union {NL}) /\ SubSeq(t \o <<NL>>, 1, Len(t \o <<NL>>) - 1) = t
  <1>1. t \in Seq(Shown \union {NL}) /\ <<NL>> \in Seq(Shown \union {NL}) /\ Len(t) \in Nat
    BY DEF Texts
  <1>2. PICK q : q = t \o <<NL>>
    OBVIOUS
  <1>3. q \in Seq(Shown \union {NL}) /\ Len(q) = Len(t) + 1 /\ \A k \in 1 .. Len(t) : q[k] = t[k]
    BY <1>1, <1>2
  <1>4. PICK n : n = Len(q) - 1
    OBVIOUS
  <1>5. n = Len(t) /\ n \in Nat /\ 1 \in Nat \ {0} /\ 1 <= n + 1 /\ n <= Len(q)
    BY <1>1, <1>3, <1>4
  <1>6. SubSeq(q, 1, n) = [k \in 1 .. n + 1 - 1 |-> q[1 + k - 1]]
    BY <1>3, <1>5, SubSeqIs
  <1>7. n + 1 - 1 = n /\ \A k \in 1 .. n : 1 + k - 1 = k
    BY <1>5
  <1>8. t = [k \in 1 .. n |-> t[k]]
    BY <1>1, <1>5
  <1>9. SubSeq(q, 1, n) = t
    BY <1>3, <1>5, <1>6, <1>7, <1>8
  <1> QED
    BY <1>2, <1>3, <1>4, <1>9

(* write's buffer holds all its words: nothing is cut.                       *)
LEMMA WriteTextIs ==
  ASSUME NEW s \in Lines, NEW argv, argv = Args(LineOf(s)), Len(argv) > 2
  PROVE  /\ Tail(Tail(argv)) \in Seq(Spaceless)
         /\ WriteText(Tail(Tail(argv))) = Joined(Tail(Tail(argv))) \o <<NL>>
  <1>1. /\ argv \in Seq(Spaceless) /\ Len(argv) \in Nat /\ Len(argv) <= Len(Words(s)) /\ Len(Words(s)) \in Nat
        /\ \A k \in 1 .. Len(argv) : argv[k] = Words(s)[k]
    <2>1. Words(s) \in Seq(Spaceless)
      BY WordsType DEF Lines
    <2> QED
      BY <2>1, ArgvType
  <1>2. PICK x, y : x = Tail(argv) /\ y = Tail(x)
    OBVIOUS
  <1>3. x \in Seq(Spaceless) /\ Len(x) = Len(argv) - 1 /\ \A k \in 1 .. Len(argv) - 1 : x[k] = argv[k + 1]
    <2>1. argv # <<>>
      BY <1>1
    <2> QED
      BY <1>1, <1>2, <2>1, TailType
  <1>4. y \in Seq(Spaceless) /\ Len(y) = Len(x) - 1 /\ \A k \in 1 .. Len(x) - 1 : y[k] = x[k + 1]
    <2>1. x # <<>>
      BY <1>1, <1>3
    <2> QED
      BY <1>2, <1>3, <2>1, TailType
  <1>5. ASSUME NEW k \in 1 .. Len(y) PROVE y[k] = Words(s)[2 + k]
    <2>1. k \in 1 .. Len(x) - 1 /\ k + 1 \in 1 .. Len(argv) - 1 /\ (k + 1) + 1 = 2 + k /\ 2 + k \in 1 .. Len(argv)
      BY <1>1, <1>3, <1>4
    <2>2. y[k] = x[k + 1] /\ x[k + 1] = argv[(k + 1) + 1]
      BY <1>3, <1>4, <2>1
    <2> QED
      BY <1>1, <2>1, <2>2
  <1>6. Len(Joined(y)) <= Len(s)
    <2>1. 2 \in Nat /\ 2 + Len(y) <= Len(Words(s))
      BY <1>1, <1>3, <1>4
    <2>2. s \in Texts
      BY DEF Lines
    <2> QED
      BY <1>4, <1>5, <2>1, <2>2, JoinedFits
  <1>7. PICK t, n : t = Joined(y) /\ n = Len(t)
    OBVIOUS
  <1>8. t \in Seq(Shown) /\ n \in Nat /\ n <= LINE_MAX - 1
    <2>1. t \in Seq(Shown)
      BY <1>4, <1>7, JoinedWords DEF Texts
    <2> QED
      BY <1>6, <1>7, <2>1, LineFacts DEF Lines, Texts
  <1>9. Min({n, LINE_MAX - 1}) = n
    <2>1. LINE_MAX - 1 \in Nat
      BY LineFacts
    <2> QED
      BY <1>8, <2>1, MinOfTwo
  <1>10. SubSeq(t, 1, n) = t
    BY <1>7, <1>8, SubSeqFull
  <1>11. WriteText(y) = SubSeq(t, 1, Min({n, LINE_MAX - 1})) \o <<NL>>
    BY <1>7 DEF WriteText
  <1> QED
    BY <1>2, <1>4, <1>7, <1>9, <1>10, <1>11

-----------------------------------------------------------------------------
(* The commands.  What they put out are characters shown and newlines, so    *)
(* the screen stays blank after the cursor; each leaves what Ran says.       *)
LEMMA CommandNames ==
  /\ EchoName # ClearName /\ RdsectName # WrsectName /\ WriteName # RdsectName /\ WriteName # WrsectName
  /\ EchoName # WriteName /\ EchoName # RdsectName /\ EchoName # WrsectName
  /\ ClearName # WriteName /\ ClearName # RdsectName /\ ClearName # WrsectName
  <1>1. EchoName # ClearName /\ RdsectName # WrsectName /\ WriteName \notin {RdsectName, WrsectName}
    BY PromptAssumption
  <1>2. {EchoName, ClearName} \cap {WriteName, RdsectName, WrsectName} = {}
    BY PromptAssumption
  <1> QED
    BY <1>1, <1>2

(* What every command leaves of the editor and of the prompt.                *)
LEMMA ExecLeaves ==
  ASSUME PInv, at = "exec", NEW argv, NEW out, NEW asked, Leaves(argv, out, asked)
  PROVE  /\ at' = "prompt" /\ seen' = seen /\ seen \in Lines /\ (\E s \in Lines : Holds(s))'
         /\ last'.argv = argv /\ last'.out = out /\ sector' = asked
  <1>1. /\ last' = [argv |-> argv, out |-> out] /\ sector' = asked
        /\ le' = LineReset(le) /\ at' = "prompt" /\ seen' = seen
    BY DEF Leaves
  <1>2. le = [buf |-> le.buf, len |-> le.len] /\ seen \in Lines
    BY DEF PInv, Holds
  <1>3. PICK s : s = <<>>
    OBVIOUS
  <1>4. s \in Lines /\ Len(s) = 0
    BY <1>3, PromptFacts
  <1>5. EmptyBuf = LineOf(s)
    <2>1. \A k \in Places : ~(k < 0)
      BY LineFacts
    <2> QED
      BY <1>4, <2>1 DEF EmptyBuf, LineOf
  <1>6. le' = [buf |-> EmptyBuf, len |-> 0]
    BY <1>1, <1>2 DEF LineReset
  <1>7. Holds(s)'
    BY <1>1, <1>3, <1>4, <1>5, <1>6 DEF Holds
  <1> QED
    BY <1>1, <1>2, <1>4, <1>7

LEMMA ExecShows ==
  ASSUME PInv, NEW t \in Texts, screen' = Echoed(screen, t \o <<NL>>)
  PROVE  screen' \in Screens /\ Blank(screen')
  <1>1. screen \in Screens /\ Blank(screen)
    BY DEF PInv
  <1> QED
    BY <1>1, EchoedBlank, LineEnded

LEMMA PromptRuns ==
  ASSUME PInv, Exec
  PROVE  PInv'
  <1>1. PICK s \in Lines : Holds(s)
    BY DEF PInv
  <1>2. PICK argv : argv = Args(LineOf(seen))
    OBVIOUS
  <1>3. at = "exec" /\ seen \in Lines /\ screen \in Screens /\ Blank(screen) /\ argv = Args(le.buf)
    BY <1>1, <1>2 DEF Exec, PInv, Holds
  <1>4. argv \in Seq(Spaceless) /\ \A k \in 1 .. Len(argv) : argv[k] \in Texts
    BY <1>2, <1>3, ArgvType
  <1>5. argv # <<>> => argv[1] \in Texts /\ Tail(argv) \in Seq(Spaceless) /\ Joined(Tail(argv)) \in Texts
    <2> HAVE argv # <<>>
    <2>1. 1 \in 1 .. Len(argv)
      BY <1>4
    <2>2. Tail(argv) \in Seq(Spaceless)
      BY <1>4, TailType
    <2> QED
      BY <1>4, <2>1, <2>2, JoinedWords
  <1>6. \/ EmptyLine(argv) \/ ShellEchoCmd(argv) \/ ShellClear(argv) \/ ShellWrite(argv)
        \/ ShellSector(argv) \/ NotFound(argv)
    BY <1>3 DEF Exec
  <1> DEFINE Name == argv[1]
             After(out, asked) == Leaves(argv, out, asked) /\ screen' \in Screens /\ Blank(screen')
             AsAsked(out, asked) ==
               /\ argv # <<>> /\ Name = EchoName => out = Joined(Tail(argv)) \o <<NL>>
               /\ Len(argv) > 2 /\ Name = WriteName => out = WriteText(Tail(Tail(argv)))
               /\ asked # NoSector =>
                    /\ argv # <<>>
                    /\ \/ Name = RdsectName /\ asked = RdsectAsks(argv)
                       \/ Name = WrsectName /\ asked = WrsectAsks(argv)
  <1>7. \E out, asked : After(out, asked) /\ AsAsked(out, asked)
    <2>1. CASE EmptyLine(argv)
      <3>1. After(<<>>, NoSector) /\ argv = <<>> /\ Len(argv) = 0
        BY <1>3, <2>1 DEF EmptyLine, Done
      <3>2. AsAsked(<<>>, NoSector)
        BY <3>1
      <3> QED
        BY <3>1, <3>2
    <2>2. CASE ShellEchoCmd(argv)
      <3> DEFINE out == Joined(Tail(argv)) \o <<NL>>
      <3>1. argv # <<>> /\ Name = EchoName /\ Leaves(argv, out, NoSector) /\ screen' = Echoed(screen, out)
        BY <2>2 DEF ShellEchoCmd, Done
      <3>2. screen' \in Screens /\ Blank(screen')
        BY <1>5, <3>1, ExecShows
      <3>3. AsAsked(out, NoSector)
        BY <3>1, CommandNames
      <3> QED
        BY <3>1, <3>2, <3>3
    <2>3. CASE ShellClear(argv)
      <3>1. /\ argv # <<>> /\ Name = ClearName /\ Leaves(argv, <<>>, NoSector)
            /\ screen' = [cells |-> Cleared, cursor |-> 0]
        BY <2>3 DEF ShellClear, Done
      <3>2. screen' \in Screens /\ Blank(screen')
        <4>1. Cleared \in [Cells -> Shown] /\ \A k \in Cells : Cleared[k] = Space
          BY DEF Cleared, Shown
        <4>2. 0 \in Cells
          BY SizeFacts DEF Cells
        <4> QED
          BY <3>1, <4>1, <4>2 DEF Screens, Blank
      <3>3. AsAsked(<<>>, NoSector)
        BY <3>1, CommandNames
      <3> QED
        BY <3>1, <3>2, <3>3
    <2>4. CASE ShellWrite(argv)
      <3>1. argv # <<>> /\ Name = WriteName /\ screen' = Echoed(screen, Name \o <<NL>>)
        BY <2>4 DEF ShellWrite
      <3>2. screen' \in Screens /\ Blank(screen')
        BY <1>5, <3>1, ExecShows
      <3>3. CASE Len(argv) < 3
        <4>1. Leaves(argv, <<>>, NoSector) /\ ~(Len(argv) > 2)
          BY <1>4, <2>4, <3>3 DEF ShellWrite, Done
        <4>2. AsAsked(<<>>, NoSector)
          BY <3>1, <4>1, CommandNames
        <4> QED
          BY <3>2, <4>1, <4>2
      <3>4. CASE ~(Len(argv) < 3)
        <4>1. Leaves(argv, WriteText(Tail(Tail(argv))), NoSector)
          BY <2>4, <3>4 DEF ShellWrite, Done
        <4>2. AsAsked(WriteText(Tail(Tail(argv))), NoSector)
          BY <3>1, CommandNames
        <4> QED
          BY <3>2, <4>1, <4>2
      <3> QED
        BY <3>3, <3>4
    <2>5. CASE ShellSector(argv)
      <3> DEFINE asked == IF Name = RdsectName THEN RdsectAsks(argv) ELSE WrsectAsks(argv)
      <3>1. /\ argv # <<>> /\ Name \in {RdsectName, WrsectName} /\ Leaves(argv, <<>>, asked)
            /\ screen' = Echoed(screen, Name \o <<NL>>)
        BY <2>5 DEF ShellSector
      <3>2. screen' \in Screens /\ Blank(screen')
        BY <1>5, <3>1, ExecShows
      <3>3. AsAsked(<<>>, asked)
        BY <3>1, CommandNames
      <3> QED
        BY <3>1, <3>2, <3>3
    <2>6. CASE NotFound(argv)
      <3> DEFINE out == Name \o <<NL>>
      <3>1. /\ argv # <<>> /\ Name \notin {EchoName, ClearName, WriteName, RdsectName, WrsectName}
            /\ Leaves(argv, out, NoSector) /\ screen' = Echoed(screen, out)
        BY <2>6 DEF NotFound, Done
      <3>2. screen' \in Screens /\ Blank(screen')
        BY <1>5, <3>1, ExecShows
      <3>3. AsAsked(out, NoSector)
        BY <3>1
      <3> QED
        BY <3>1, <3>2, <3>3
    <2> QED
      BY <1>6, <2>1, <2>2, <2>3, <2>4, <2>5, <2>6
  <1>8. PICK out, asked : After(out, asked) /\ AsAsked(out, asked)
    BY <1>7
  <1>9. /\ at' = "prompt" /\ seen' = seen /\ seen \in Lines /\ (\E t \in Lines : Holds(t))'
        /\ last'.argv = argv /\ last'.out = out /\ sector' = asked
    BY <1>3, <1>8, ExecLeaves
  <1>10. Ran'
    BY <1>2, <1>8, <1>9 DEF Ran
  <1> QED
    BY <1>8, <1>9, <1>10 DEF PInv

LEMMA PromptStill ==
  ASSUME PInv, UNCHANGED promptVars
  PROVE  PInv'
  <1>1. /\ screen' = screen /\ le' = le /\ at' = at /\ seen' = seen /\ last' = last /\ sector' = sector
    BY DEF promptVars
  <1>2. (\E s \in Lines : Holds(s))'
    <2>1. PICK s \in Lines : Holds(s)
      BY DEF PInv
    <2>2. Holds(s)'
      BY <1>1, <2>1 DEF Holds
    <2> QED
      BY <2>2
  <1>3. Ran => Ran'
    BY <1>1 DEF Ran
  <1> QED
    BY <1>1, <1>2, <1>3 DEF PInv

(* The invariant of the prompt: the line edited, the line seen and what was  *)
(* run with it hang together from key to key (shell.c, lineedit.c).          *)
THEOREM PromptHolds == PSpec => []PInv
  <1>1. PInv /\ [PNext]_promptVars => PInv'
    <2> SUFFICES ASSUME PInv, [PNext]_promptVars PROVE PInv'
      OBVIOUS
    <2>1. CASE ShowPrompt
      BY <2>1, PromptShown
    <2>2. CASE \E c \in Chars : Key(c)
      BY <2>2, PromptKeyed
    <2>3. CASE Exec
      BY <2>3, PromptRuns
    <2>4. CASE UNCHANGED promptVars
      BY <2>4, PromptStill
    <2> QED
      BY <2>1, <2>2, <2>3, <2>4 DEF PNext
  <1> QED
    BY <1>1, PromptStarts, PTL DEF PSpec

LEMMA SeenFollows == PInv => SeenIsLine
  <1> SUFFICES ASSUME PInv, at = "key"
               PROVE  /\ Len(Line) = le.len
                      /\ Behind(Len(Prompt) + le.len) = Prompt \o Line
                      /\ \A k \in Cells : k >= screen.cursor => screen.cells[k] = Space
    BY DEF SeenIsLine
  <1>1. PICK s \in Lines : Holds(s)
    BY DEF PInv
  <1>2. Line = s
    BY <1>1, LineIs DEF Line, Holds
  <1>3. Blank(screen) /\ screen \in Screens
    BY DEF PInv
  <1>4. EndsWith(screen, Prompt \o s) /\ le.len = Len(s) /\ screen.cursor \in Nat
    BY <1>1, <1>3 DEF Holds, Screens, Cells
  <1>5. /\ Prompt \o s \in Texts /\ Len(Prompt) + Len(s) \in Nat /\ Len(Prompt \o s) = Len(Prompt) + Len(s)
    BY PromptFacts
  <1>6. Behind(Len(Prompt) + Len(s)) = Prompt \o s
    BY <1>4, <1>5, BehindIs
  <1> QED
    BY <1>2, <1>3, <1>4, <1>6 DEF Blank

LEMMA ExecutesFollows == PInv => ExecutesWhatIsSeen
  <1> SUFFICES ASSUME PInv, at = "prompt" PROVE ExecutesWhatIsSeen
    BY DEF ExecutesWhatIsSeen
  <1>1. PICK argv : argv = Args(LineOf(seen))
    OBVIOUS
  <1>2. /\ seen \in Lines /\ last.argv = argv
        /\ argv # <<>> /\ argv[1] = EchoName => last.out = Joined(Tail(argv)) \o <<NL>>
        /\ Len(argv) > 2 /\ argv[1] = WriteName => last.out = WriteText(Tail(Tail(argv)))
    BY <1>1 DEF PInv, Ran
  <1>3. argv = SubSeq(Words(seen), 1, Min({Len(Words(seen)), SHELL_MAX_ARGS})) /\ argv \in Seq(Spaceless)
    BY <1>1, <1>2, ArgvType DEF Took
  <1>4. ASSUME argv # <<>>, argv[1] = EchoName
        PROVE  Words(SubSeq(last.out, 1, Len(last.out) - 1)) = Tail(argv)
    <2>1. PICK w, t : w = Tail(argv) /\ t = Joined(w)
      OBVIOUS
    <2>2. t \in Texts /\ Words(t) = w
      BY <1>3, <1>4, <2>1, TailType, JoinedWords
    <2>3. last.out = t \o <<NL>>
      BY <1>2, <1>4, <2>1
    <2>4. SubSeq(last.out, 1, Len(last.out) - 1) = t
      BY <2>2, <2>3, LineEnded
    <2> QED
      BY <2>1, <2>2, <2>4
  <1>5. ASSUME Len(argv) > 2, argv[1] = WriteName
        PROVE  Words(SubSeq(last.out, 1, Len(last.out) - 1)) = Tail(Tail(argv))
    <2>1. PICK w, t : w = Tail(Tail(argv)) /\ t = Joined(w)
      OBVIOUS
    <2>2. w \in Seq(Spaceless) /\ last.out = t \o <<NL>>
      BY <1>1, <1>2, <1>5, <2>1, WriteTextIs
    <2>3. t \in Texts /\ Words(t) = w
      BY <2>1, <2>2, JoinedWords
    <2>4. SubSeq(last.out, 1, Len(last.out) - 1) = t
      BY <2>2, <2>3, LineEnded
    <2> QED
      BY <2>1, <2>3, <2>4
  <1> QED
    BY <1>2, <1>3, <1>4, <1>5 DEF ExecutesWhatIsSeen

(* What is before the cursor is the prompt and the line the editor holds, and *)
(* nothing is left after it: lineedit.c and vga_putc agree, whatever the keys. *)
THEOREM ScreenShowsLine == PSpec => []SeenIsLine
  BY PromptHolds, SeenFollows, PTL

(* shell_exec runs the words that stood on the screen, and echo and write    *)
(* give back those words: splitting and joining are inverse.                 *)
THEOREM RunsWhatIsSeen == PSpec => []ExecutesWhatIsSeen
  BY PromptHolds, ExecutesFollows, PTL

-----------------------------------------------------------------------------
(* Numbers.  Digits read one after the other, as the loops of parse_dec and  *)
(* parse_hex do: what is read so far is moved a place and the digit added.   *)
Horner(h, digits, s) ==
  /\ h \in [0 .. Len(s) -> Nat] /\ h[0] = 0
  /\ \A n \in 1 .. Len(s) : h[n] = h[n - 1] * Len(digits) + Digit(digits, s[n])

LEMMA DigitType ==
  ASSUME NEW digits, Len(digits) \in Nat \ {0}, NEW c, Contains(digits, c)
  PROVE  Digit(digits, c) \in 0 .. Len(digits) - 1 /\ Digit(digits, c) \in Nat
  <1>1. PICK i \in 1 .. Len(digits) : digits[i] = c
    BY DEF Contains
  <1>2. i - 1 \in 0 .. Len(digits) - 1 /\ (i - 1) + 1 = i
    BY <1>1
  <1>3. \E d \in 0 .. Len(digits) - 1 : digits[d + 1] = c
    BY <1>1, <1>2
  <1>4. Digit(digits, c) \in 0 .. Len(digits) - 1
    BY <1>3 DEF Digit
  <1> QED
    BY <1>4

LEMMA HornerExists ==
  ASSUME NEW digits, Len(digits) \in Nat \ {0}, NEW s, Len(s) \in Nat,
         \A i \in 1 .. Len(s) : Contains(digits, s[i])
  PROVE  \E h : Horner(h, digits, s)
  <1> DEFINE N == Len(s)
             G == [n \in 1 .. N |-> [v \in Nat |-> v * Len(digits) + Digit(digits, s[n])]]
  <1>1. ASSUME NEW n \in 1 .. N, NEW v \in Nat PROVE v * Len(digits) + Digit(digits, s[n]) \in Nat
    <2>1. Digit(digits, s[n]) \in Nat
      BY DigitType
    <2> QED
      BY <2>1
  <1>2. G \in [1 .. N -> [Nat -> Nat]]
    BY <1>1
  <1>3. \A n \in 1 .. N, v \in Nat : G[n][v] = v * Len(digits) + Digit(digits, s[n])
    OBVIOUS
  <1> HIDE DEF G
  <1>4. 0 \in Nat /\ N \in Nat
    OBVIOUS
  <1>5. PICK h \in [0 .. N -> Nat] : Links(h, N, 0, G)
    BY <1>2, <1>4, ChainExists
  <1>6. ASSUME NEW n \in 1 .. N PROVE h[n] = h[n - 1] * Len(digits) + Digit(digits, s[n])
    <2>1. n - 1 \in 0 .. N
      BY <1>4
    <2> QED
      BY <1>3, <1>5, <2>1 DEF Links
  <1> QED
    BY <1>5, <1>6 DEF Horner, Links

(* That is the sum of the digits, each worth its place.                      *)
LEMMA Distributes ==
  ASSUME NEW a \in Nat, NEW b \in Nat, NEW c \in Nat, NEW d \in Nat
  PROVE  (a * b + d) * c = a * (c * b) + d * c
  OBVIOUS

LEMMA ValueIs ==
  ASSUME NEW digits, Len(digits) \in Nat \ {0}, NEW s, Len(s) \in Nat,
         \A i \in 1 .. Len(s) : Contains(digits, s[i]), NEW h, Horner(h, digits, s)
  PROVE  Value(digits, s) = h[Len(s)]
  <1> DEFINE N == Len(s)
             b == Len(digits)
             D(n) == Digit(digits, s[n])
             IsWorth(f) == f = [n \in 0 .. N |-> IF n = 0 THEN 1 ELSE f[n - 1] * b]
             worth == CHOOSE f : IsWorth(f)
             W == [n \in 1 .. N |-> [v \in Nat |-> v * b]]
             IsSum(f) == f = [n \in 0 .. N |-> IF n = 0 THEN 0 ELSE f[n - 1] + D(n) * worth[N - n]]
             sum == CHOOSE f : IsSum(f)
             G == [n \in 1 .. N |-> [v \in Nat |-> v + D(n) * worth[N - n]]]
  <1>1. N \in Nat /\ b \in Nat /\ \A n \in 1 .. N : D(n) \in Nat /\ n - 1 \in 0 .. N /\ n \in 0 .. N
    BY DigitType
  <1>2. Value(digits, s) = sum[N]
    BY DEF Value
  <1> HIDE DEF b, D, sum
  <1>3. worth \in [0 .. N -> Nat] /\ worth[0] = 1 /\ \A n \in 1 .. N : worth[n] = worth[n - 1] * b
    <2>1. W \in [1 .. N -> [Nat -> Nat]] /\ \A n \in 1 .. N, v \in Nat : W[n][v] = v * b
      BY <1>1
    <2> HIDE DEF W
    <2>2. PICK f \in [0 .. N -> Nat] : Links(f, N, 1, W)
      BY <1>1, <2>1, ChainExists
    <2>3. f[0] = 1 /\ \A n \in 1 .. N : f[n] = f[n - 1] * b
      BY <1>1, <2>1, <2>2 DEF Links
    <2>4. IsWorth(f)
      <3>1. ASSUME NEW n \in 0 .. N PROVE f[n] = IF n = 0 THEN 1 ELSE f[n - 1] * b
        <4>1. n # 0 => n \in 1 .. N
          BY <1>1
        <4> QED
          BY <2>3, <4>1
      <3> QED
        BY <3>1
    <2>5. IsWorth(worth)
      BY <2>4
    <2> HIDE DEF worth
    <2>6. worth[0] = 1 /\ \A n \in 1 .. N : worth[n] = worth[n - 1] * b
      BY <1>1, <2>5
    <2>7. Follows(worth, N, 1, W, Nat)
      BY <2>1, <2>6 DEF Follows
    <2>8. Chained(f, N, 1, W, Nat)
      BY <2>2 DEF Chained
    <2>9. worth = [n \in 0 .. N |-> worth[n]]
      BY <2>5
    <2> HIDE DEF IsWorth, N
    <2>10. Agree(worth, f, N)
      BY <1>1, <2>7, <2>8, ChainOnly, Zenon
    <2>11. \A n \in 0 .. N : worth[n] \in Nat
      BY <2>2, <2>10 DEF Agree
    <2> QED
      BY <2>6, <2>9, <2>11
  <1> HIDE DEF worth
  <1>4. sum[0] = 0 /\ \A n \in 1 .. N : sum[n] = sum[n - 1] + D(n) * worth[N - n]
    <2>1. ASSUME NEW n \in 1 .. N, NEW v \in Nat PROVE v + D(n) * worth[N - n] \in Nat
      <3>1. N - n \in 0 .. N
        BY <1>1
      <3>2. worth[N - n] \in Nat /\ D(n) \in Nat
        BY <1>1, <1>3, <3>1
      <3> QED
        BY <3>2
    <2>2. G \in [1 .. N -> [Nat -> Nat]] /\ \A n \in 1 .. N, v \in Nat : G[n][v] = v + D(n) * worth[N - n]
      BY <2>1
    <2> HIDE DEF G
    <2>3. PICK f \in [0 .. N -> Nat] : Links(f, N, 0, G)
      BY <1>1, <2>2, ChainExists
    <2>4. f[0] = 0 /\ \A n \in 1 .. N : f[n] = f[n - 1] + D(n) * worth[N - n]
      BY <1>1, <2>2, <2>3 DEF Links
    <2>5. IsSum(f)
      <3>1. ASSUME NEW n \in 0 .. N PROVE f[n] = IF n = 0 THEN 0 ELSE f[n - 1] + D(n) * worth[N - n]
        <4>1. n # 0 => n \in 1 .. N
          BY <1>1
        <4> QED
          BY <2>4, <4>1
      <3> QED
        BY <3>1
    <2>6. IsSum(sum)
      BY <2>5 DEF sum
    <2> QED
      BY <1>1, <2>6
  <1>5. h \in [0 .. N -> Nat] /\ h[0] = 0 /\ \A n \in 1 .. N : h[n] = h[n - 1] * b + D(n)
    BY DEF Horner, b, D
  <1> HIDE DEF N
  <1> DEFINE S == {n \in 0 .. N : h[n] * worth[N - n] = sum[n]}
  <1>6. 0 \in S
    <2>1. N - 0 \in 0 .. N /\ 0 \in 0 .. N
      BY <1>1
    <2>2. worth[N - 0] \in Nat
      BY <1>3, <2>1
    <2>3. h[0] * worth[N - 0] = 0
      BY <1>5, <2>2
    <2> QED
      BY <1>4, <2>1, <2>3
  <1>7. ASSUME NEW n \in 1 .. N, n - 1 \in S PROVE n \in S
    <2>1. PICK m : m = N - n
      OBVIOUS
    <2>2. m \in 0 .. N /\ m + 1 \in 1 .. N /\ N - (n - 1) = m + 1 /\ (m + 1) - 1 = m
          /\ n \in 0 .. N /\ n - 1 \in 0 .. N
      BY <1>1, <2>1
    <2>3. worth[m + 1] = worth[m] * b /\ worth[m] \in Nat
      BY <1>3, <2>2
    <2>4. h[n] = h[n - 1] * b + D(n) /\ h[n - 1] \in Nat /\ D(n) \in Nat
      BY <1>1, <1>5, <2>2
    <2>5. h[n - 1] * worth[m + 1] = sum[n - 1]
      BY <1>7, <2>2
    <2>6. (h[n - 1] * b + D(n)) * worth[m] = h[n - 1] * (worth[m] * b) + D(n) * worth[m]
      <3>1. PICK x, y, z : x = h[n - 1] /\ y = D(n) /\ z = worth[m]
        OBVIOUS
      <3>2. x \in Nat /\ y \in Nat /\ z \in Nat /\ b \in Nat
        BY <1>1, <2>3, <2>4, <3>1
      <3>3. (x * b + y) * z = x * (z * b) + y * z
        BY <3>2, Distributes
      <3> QED
        BY <3>1, <3>3, Zenon
    <2>7. h[n] * worth[m] = sum[n - 1] + D(n) * worth[m]
      BY <2>3, <2>4, <2>5, <2>6
    <2> QED
      BY <1>4, <2>1, <2>2, <2>7
  <1>8. \A n \in 0 .. N : n \in S
    <2> HIDE DEF S
    <2> QED
      BY <1>1, <1>6, <1>7, Counting
  <1>9. N \in 0 .. N /\ N - N = 0
    BY <1>1
  <1>10. h[N] * worth[0] = sum[N] /\ h[N] \in Nat
    BY <1>5, <1>8, <1>9
  <1>11. h[N] = sum[N]
    BY <1>3, <1>10
  <1> QED
    BY <1>2, <1>11 DEF N

(* Up to M exactly the numbers the test before the overflow lets through.    *)
LEMMA DivFacts ==
  ASSUME NEW M \in Nat, NEW b \in Nat \ {0}
  PROVE  /\ M \div b \in Nat /\ M % b \in 0 .. b - 1 /\ M % b \in Nat
         /\ M = (M \div b) * b + (M % b)
  OBVIOUS

LEMMA FitsIs ==
  ASSUME NEW M \in Nat, NEW b \in Nat \ {0}, NEW v \in Nat, NEW d \in 0 .. b - 1
  PROVE  v < M \div b \/ (v = M \div b /\ d <= M % b) <=> v * b + d <= M
  <1>1. PICK t, r : t = M \div b /\ r = M % b
    OBVIOUS
  <1>2. t \in Nat /\ r \in Nat /\ r <= b - 1 /\ M = t * b + r /\ d \in Nat /\ d <= b - 1 /\ b \in Nat
    <2>1. /\ M \div b \in Nat /\ M % b \in 0 .. b - 1 /\ M % b \in Nat
          /\ M = (M \div b) * b + (M % b)
      BY DivFacts, Zenon
    <2>2. t \in Nat /\ r \in 0 .. b - 1 /\ r \in Nat /\ M = t * b + r
      BY <1>1, <2>1, Zenon
    <2>3. r <= b - 1 /\ d \in Nat /\ d <= b - 1 /\ b \in Nat
      BY <2>2
    <2> QED
      BY <2>2, <2>3
  <1>3. t * b \in Nat /\ v * b \in Nat
    BY <1>2
  <1>4. CASE v < t
    <2>1. (v + 1) * b <= t * b
      <3>1. v + 1 \in Nat /\ v + 1 <= t
        BY <1>2, <1>4
      <3> QED
        BY <1>2, <3>1, ProductGrows
    <2>2. (v + 1) * b = v * b + b
      BY <1>2
    <2>3. v * b + d <= M
      BY <1>2, <1>3, <2>1, <2>2
    <2> QED
      BY <1>1, <1>4, <2>3
  <1>5. CASE v = t
    <2>1. v * b + d <= M <=> d <= r
      BY <1>2, <1>3, <1>5
    <2>2. ~(v < t)
      BY <1>2, <1>5
    <2> QED
      BY <1>1, <1>5, <2>1, <2>2
  <1>6. CASE v > t
    <2>1. (t + 1) * b <= v * b
      <3>1. t + 1 \in Nat /\ t + 1 <= v
        BY <1>2, <1>6
      <3> QED
        BY <1>2, <3>1, ProductGrows
    <2>2. (t + 1) * b = t * b + b
      BY <1>2
    <2>3. ~(v * b + d <= M)
      BY <1>2, <1>3, <2>1, <2>2
    <2>4. ~(v < t) /\ v # t
      BY <1>2, <1>6
    <2> QED
      BY <1>1, <2>3, <2>4
  <1> QED
    BY <1>2, <1>4, <1>5, <1>6

Reading == [ok : BOOLEAN, val : Nat]

LEMMA NumberFacts ==
  /\ WordMax \in Nat /\ MaxHexDigits \in Nat /\ Len(DecDigits) \in Nat \ {0}
  /\ Len(HexDigits) \in Nat \ {0} /\ Len(HexPrefix) \in Nat
  BY LineTextAssumption

LEMMA DecStepIs ==
  ASSUME NEW r \in Reading, NEW c
  PROVE  /\ DecStep(r, c) \in Reading
         /\ DecStep(r, c).ok => r.ok /\ Contains(DecDigits, c)
         /\ r.ok /\ Contains(DecDigits, c) =>
              /\ DecStep(r, c).ok <=> r.val * Len(DecDigits) + Digit(DecDigits, c) <= WordMax
              /\ DecStep(r, c).ok => DecStep(r, c).val = r.val * Len(DecDigits) + Digit(DecDigits, c)
  <1> DEFINE b == Len(DecDigits)
             d == Digit(DecDigits, c)
             tops == WordMax \div b
             fits == r.val < tops \/ (r.val = tops /\ d <= WordMax % b)
  <1>1. b \in Nat \ {0} /\ WordMax \in Nat /\ r.val \in Nat /\ r.ok \in BOOLEAN
    BY NumberFacts DEF Reading
  <1>2. DecStep(r, c) = IF ~r.ok \/ ~Contains(DecDigits, c) \/ ~fits THEN Refusal
                        ELSE [ok |-> TRUE, val |-> r.val * b + d]
    BY DEF DecStep
  <1>3. CASE ~r.ok \/ ~Contains(DecDigits, c)
    <2>1. DecStep(r, c) = Refusal
      BY <1>2, <1>3
    <2>2. Refusal \in Reading /\ ~Refusal.ok
      BY DEF Refusal, Reading
    <2> QED
      BY <1>3, <2>1, <2>2
  <1>4. CASE r.ok /\ Contains(DecDigits, c)
    <2>1. d \in 0 .. b - 1 /\ d \in Nat
      BY <1>1, <1>4, DigitType
    <2>2. fits <=> r.val * b + d <= WordMax
      <3> HIDE DEF b, d
      <3> QED
        BY <1>1, <2>1, FitsIs
    <2>3. r.val * b + d \in Nat
      BY <1>1, <2>1
    <2> HIDE DEF fits, b, d
    <2>4. CASE fits
      <3>1. DecStep(r, c) = [ok |-> TRUE, val |-> r.val * b + d]
        BY <1>2, <1>4, <2>4
      <3>2. DecStep(r, c) \in Reading /\ DecStep(r, c).ok /\ DecStep(r, c).val = r.val * b + d
        BY <2>3, <3>1 DEF Reading
      <3> QED
        BY <1>4, <2>2, <2>4, <3>2 DEF b, d
    <2>5. CASE ~fits
      <3>1. DecStep(r, c) = Refusal
        BY <1>2, <2>5
      <3>2. DecStep(r, c) \in Reading /\ ~DecStep(r, c).ok
        BY <3>1 DEF Refusal, Reading
      <3> QED
        BY <2>2, <2>5, <3>2 DEF b, d
    <2> QED
      BY <2>4, <2>5
  <1> QED
    BY <1>3, <1>4

LEMMA ParseDecRuns ==
  ASSUME NEW s, Len(s) \in Nat, s # <<>>
  PROVE  \E f \in [0 .. Len(s) -> Reading] :
           /\ f[0] = [ok |-> TRUE, val |-> 0]
           /\ \A n \in 1 .. Len(s) : f[n] = DecStep(f[n - 1], s[n])
           /\ ParseDec(s) = f[Len(s)]
  <1> DEFINE N == Len(s)
             x == [ok |-> TRUE, val |-> 0]
             Is(f) == f = [n \in 0 .. N |-> IF n = 0 THEN x ELSE DecStep(f[n - 1], s[n])]
             read == CHOOSE f : Is(f)
             G == [n \in 1 .. N |-> [r \in Reading |-> DecStep(r, s[n])]]
  <1>1. N \in Nat /\ x \in Reading
    BY DEF Reading
  <1>2. ParseDec(s) = read[N]
    BY DEF ParseDec
  <1>3. G \in [1 .. N -> [Reading -> Reading]] /\ \A n \in 1 .. N, r \in Reading : G[n][r] = DecStep(r, s[n])
    BY DecStepIs
  <1> HIDE DEF G, x
  <1>4. PICK f \in [0 .. N -> Reading] : Links(f, N, x, G)
    BY <1>1, <1>3, ChainExists
  <1>5. f[0] = x /\ \A n \in 1 .. N : f[n] = DecStep(f[n - 1], s[n])
    <2>1. \A n \in 1 .. N : n - 1 \in 0 .. N
      BY <1>1
    <2> QED
      BY <1>3, <1>4, <2>1 DEF Links
  <1>6. Is(f)
    <2>1. ASSUME NEW n \in 0 .. N PROVE f[n] = IF n = 0 THEN x ELSE DecStep(f[n - 1], s[n])
      <3>1. n # 0 => n \in 1 .. N
        BY <1>1
      <3> QED
        BY <1>5, <3>1
    <2> QED
      BY <2>1
  <1>7. Is(read)
    BY <1>6
  <1> HIDE DEF read
  <1>8. read[0] = x /\ \A n \in 1 .. N : read[n] = DecStep(read[n - 1], s[n])
    BY <1>1, <1>7
  <1>9. Follows(read, N, x, G, Reading)
    BY <1>3, <1>8 DEF Follows
  <1>10. Chained(f, N, x, G, Reading)
    BY <1>4 DEF Chained
  <1> HIDE DEF Is, N
  <1>11. Agree(read, f, N)
    BY <1>1, <1>9, <1>10, ChainOnly, Zenon
  <1>12. read[N] = f[N]
    BY <1>1, <1>11 DEF Agree
  <1> QED
    BY <1>2, <1>4, <1>5, <1>12 DEF N, x

(* parse_dec: exactly the numbers that fit a word, with their exact value.   *)
LEMMA ParseDecIs ==
  ASSUME NEW A, NEW s \in Seq(A)
  PROVE  /\ ParseDec(s).ok <=> (Reads(DecDigits, s) /\ Value(DecDigits, s) <= WordMax)
         /\ ParseDec(s).ok => ParseDec(s).val = Value(DecDigits, s)
  <1> DEFINE N == Len(s)
             b == Len(DecDigits)
  <1>1. N \in Nat /\ DOMAIN s = 1 .. N /\ b \in Nat \ {0} /\ WordMax \in Nat
    BY NumberFacts
  <1>2. CASE s = <<>>
    BY <1>2 DEF ParseDec, Refusal, Reads
  <1>3. CASE s # <<>>
    <2>1. PICK f \in [0 .. N -> Reading] :
               /\ f[0] = [ok |-> TRUE, val |-> 0]
               /\ \A n \in 1 .. N : f[n] = DecStep(f[n - 1], s[n])
               /\ ParseDec(s) = f[N]
      BY <1>1, <1>3, ParseDecRuns
    <2>2. \A n \in 1 .. N : n - 1 \in 0 .. N /\ n \in 0 .. N /\ f[n - 1] \in Reading /\ n \in Nat
      BY <1>1, <2>1
    <2>3. CASE Reads(DecDigits, s)
      <3>1. \A i \in 1 .. N : Contains(DecDigits, s[i])
        BY <1>1, <2>3 DEF Reads
      <3>2. PICK h : Horner(h, DecDigits, s)
        BY <1>1, <3>1, HornerExists
      <3>3. Value(DecDigits, s) = h[N]
        BY <1>1, <3>1, <3>2, ValueIs
      <3>4. /\ h[0] = 0 /\ \A n \in 0 .. N : h[n] \in Nat
            /\ \A n \in 1 .. N : h[n] = h[n - 1] * b + Digit(DecDigits, s[n])
        BY <3>2 DEF Horner
      <3> DEFINE S == {n \in 0 .. N : (f[n].ok <=> h[n] <= WordMax) /\ (f[n].ok => f[n].val = h[n])}
      <3>5. 0 \in S
        <4>1. f[0].ok /\ f[0].val = 0 /\ 0 \in 0 .. N
          BY <1>1, <2>1
        <4> QED
          BY <1>1, <3>4, <4>1
      <3>6. ASSUME NEW n \in 1 .. N, n - 1 \in S PROVE n \in S
        <4>1. PICK r, q, d : r = f[n - 1] /\ q = f[n] /\ d = Digit(DecDigits, s[n])
          OBVIOUS
        <4>2. /\ r \in Reading /\ q = DecStep(r, s[n]) /\ d \in Nat /\ Contains(DecDigits, s[n])
              /\ h[n] = h[n - 1] * b + d /\ h[n - 1] \in Nat /\ h[n] \in Nat /\ n \in 0 .. N
              /\ (r.ok <=> h[n - 1] <= WordMax) /\ (r.ok => r.val = h[n - 1])
          BY <1>1, <2>1, <2>2, <3>1, <3>4, <3>6, <4>1, DigitType
        <4>3. CASE r.ok
          <5>1. /\ q.ok <=> r.val * b + d <= WordMax
                /\ q.ok => q.val = r.val * b + d
            BY <4>1, <4>2, <4>3, DecStepIs
          <5> QED
            BY <4>1, <4>2, <4>3, <5>1
        <4>4. CASE ~r.ok
          <5>1. ~q.ok
            BY <4>2, <4>4, DecStepIs
          <5>2. h[n - 1] <= h[n - 1] * b
            <6>1. 1 \in Nat /\ 1 <= b /\ b \in Nat
              BY <1>1
            <6>2. 1 * h[n - 1] <= b * h[n - 1]
              BY <4>2, <6>1, ProductGrows
            <6> QED
              BY <4>2, <6>1, <6>2
          <5>3. h[n - 1] * b \in Nat
            BY <1>1, <4>2
          <5>4. ~(h[n] <= WordMax)
            BY <1>1, <4>2, <4>4, <5>2, <5>3
          <5> QED
            BY <4>1, <4>2, <5>1, <5>4
        <4> QED
          BY <4>3, <4>4
      <3>7. \A n \in 0 .. N : n \in S
        <4> HIDE DEF S, N
        <4> QED
          BY <1>1, <3>5, <3>6, Counting
      <3>8. N \in 0 .. N
        BY <1>1
      <3>9. (f[N].ok <=> h[N] <= WordMax) /\ (f[N].ok => f[N].val = h[N])
        BY <3>7, <3>8
      <3> QED
        BY <2>1, <2>3, <3>3, <3>9
    <2>4. CASE ~Reads(DecDigits, s)
      <3>1. PICK i \in 1 .. N : ~Contains(DecDigits, s[i])
        BY <1>1, <1>3, <2>4 DEF Reads
      <3> DEFINE S == {n \in 0 .. N : n >= i => ~f[n].ok}
      <3>2. 0 \in S
        BY <1>1
      <3>3. ASSUME NEW n \in 1 .. N, n - 1 \in S PROVE n \in S
        <4>1. f[n - 1] \in Reading /\ f[n] = DecStep(f[n - 1], s[n]) /\ n \in 0 .. N /\ n \in Nat
          BY <2>1, <2>2
        <4>2. f[n].ok => f[n - 1].ok /\ Contains(DecDigits, s[n])
          BY <4>1, DecStepIs
        <4>3. n >= i => n = i \/ n - 1 >= i
          BY <1>1, <4>1
        <4> QED
          BY <3>1, <3>3, <4>1, <4>2, <4>3
      <3>4. \A n \in 0 .. N : n \in S
        <4> HIDE DEF S, N
        <4> QED
          BY <1>1, <3>2, <3>3, Counting
      <3>5. ~f[N].ok
        <4>1. N \in 0 .. N /\ N >= i
          BY <1>1
        <4> QED
          BY <3>4, <4>1
      <3> QED
        BY <2>1, <2>4, <3>5
    <2> QED
      BY <2>3, <2>4
  <1> QED
    BY <1>2, <1>3


LEMMA ParseDecType ==
  ASSUME NEW A, NEW s \in Seq(A)
  PROVE  ParseDec(s).val \in Nat
  <1>1. Len(s) \in Nat /\ Len(s) \in 0 .. Len(s)
    OBVIOUS
  <1>2. CASE s = <<>>
    BY <1>2 DEF ParseDec, Refusal
  <1>3. CASE s # <<>>
    <2>1. PICK f \in [0 .. Len(s) -> Reading] : ParseDec(s) = f[Len(s)]
      BY <1>1, <1>3, ParseDecRuns
    <2>2. f[Len(s)] \in Reading
      BY <1>1
    <2> QED
      BY <2>1, <2>2 DEF Reading
  <1> QED
    BY <1>2, <1>3

HexReading == [ok : BOOLEAN, val : Nat, n : Nat]

LEMMA HexStepIs ==
  ASSUME NEW r \in HexReading, NEW c
  PROVE  /\ HexStep(r, c) \in HexReading
         /\ HexStep(r, c).ok <=> (r.ok /\ Contains(HexDigits, c) /\ r.n # MaxHexDigits)
         /\ HexStep(r, c).ok =>
              /\ HexStep(r, c).val = r.val * Len(HexDigits) + Digit(HexDigits, c)
              /\ HexStep(r, c).n = r.n + 1
  <1> DEFINE b == Len(HexDigits)
             d == Digit(HexDigits, c)
  <1>1. b \in Nat \ {0} /\ r.val \in Nat /\ r.n \in Nat /\ r.ok \in BOOLEAN
    BY NumberFacts DEF HexReading
  <1>2. HexStep(r, c) = IF ~r.ok \/ ~Contains(HexDigits, c) \/ r.n = MaxHexDigits
                          THEN [ok |-> FALSE, val |-> 0, n |-> 0]
                          ELSE [ok |-> TRUE, val |-> r.val * b + d, n |-> r.n + 1]
    BY DEF HexStep
  <1>3. CASE ~r.ok \/ ~Contains(HexDigits, c) \/ r.n = MaxHexDigits
    <2>1. HexStep(r, c) = [ok |-> FALSE, val |-> 0, n |-> 0]
      BY <1>2, <1>3
    <2>2. HexStep(r, c) \in HexReading /\ ~HexStep(r, c).ok
      BY <2>1 DEF HexReading
    <2> QED
      BY <1>3, <2>2
  <1>4. CASE r.ok /\ Contains(HexDigits, c) /\ r.n # MaxHexDigits
    <2>1. d \in 0 .. b - 1
      BY <1>1, <1>4, DigitType
    <2> HIDE DEF b, d
    <2>2. r.val * b + d \in Nat
      BY <1>1, <2>1
    <2>3. HexStep(r, c) = [ok |-> TRUE, val |-> r.val * b + d, n |-> r.n + 1]
      BY <1>2, <1>4
    <2>4. /\ HexStep(r, c) \in HexReading /\ HexStep(r, c).ok
          /\ HexStep(r, c).val = r.val * b + d /\ HexStep(r, c).n = r.n + 1
      BY <1>1, <2>2, <2>3 DEF HexReading
    <2> QED
      BY <1>4, <2>4 DEF b, d
  <1> QED
    BY <1>3, <1>4

LEMMA ReadsHexRuns ==
  ASSUME NEW s, Len(s) \in Nat
  PROVE  LET x == [ok |-> TRUE, val |-> 0, n |-> 0]
             read[n \in 0 .. Len(s)] == IF n = 0 THEN x ELSE HexStep(read[n - 1], s[n])
         IN  \E f \in [0 .. Len(s) -> HexReading] :
               /\ f[0] = x
               /\ \A n \in 1 .. Len(s) : f[n] = HexStep(f[n - 1], s[n])
               /\ read[Len(s)] = f[Len(s)]
  <1> DEFINE N == Len(s)
             x == [ok |-> TRUE, val |-> 0, n |-> 0]
             Is(f) == f = [n \in 0 .. N |-> IF n = 0 THEN x ELSE HexStep(f[n - 1], s[n])]
             read == CHOOSE f : Is(f)
             G == [n \in 1 .. N |-> [r \in HexReading |-> HexStep(r, s[n])]]
  <1>1. N \in Nat /\ x \in HexReading
    BY DEF HexReading
  <1>3. G \in [1 .. N -> [HexReading -> HexReading]] /\ \A n \in 1 .. N, r \in HexReading : G[n][r] = HexStep(r, s[n])
    BY HexStepIs
  <1> HIDE DEF G, x
  <1>4. PICK f \in [0 .. N -> HexReading] : Links(f, N, x, G)
    BY <1>1, <1>3, ChainExists
  <1>5. f[0] = x /\ \A n \in 1 .. N : f[n] = HexStep(f[n - 1], s[n])
    <2>1. \A n \in 1 .. N : n - 1 \in 0 .. N
      BY <1>1
    <2> QED
      BY <1>3, <1>4, <2>1 DEF Links
  <1>6. Is(f)
    <2>1. ASSUME NEW n \in 0 .. N PROVE f[n] = IF n = 0 THEN x ELSE HexStep(f[n - 1], s[n])
      <3>1. n # 0 => n \in 1 .. N
        BY <1>1
      <3> QED
        BY <1>5, <3>1
    <2> QED
      BY <2>1
  <1>7. Is(read)
    BY <1>6
  <1> HIDE DEF read
  <1>8. read[0] = x /\ \A n \in 1 .. N : read[n] = HexStep(read[n - 1], s[n])
    BY <1>1, <1>7
  <1>9. Follows(read, N, x, G, HexReading)
    BY <1>3, <1>8 DEF Follows
  <1>10. Chained(f, N, x, G, HexReading)
    BY <1>4 DEF Chained
  <1> HIDE DEF Is, N
  <1>11. Agree(read, f, N)
    BY <1>1, <1>9, <1>10, ChainOnly, Zenon
  <1>12. read[N] = f[N]
    BY <1>1, <1>11 DEF Agree
  <1> QED
    BY <1>4, <1>5, <1>12 DEF N, x, read, Is


(* A word lowered is a word as long.                                         *)
LEMMA LoweredIs ==
  ASSUME NEW A, NEW s \in Seq(A)
  PROVE  Lowered(s) \in Seq({Lower[c] : c \in A}) /\ Len(Lowered(s)) = Len(s)
  <1>1. \A k \in 1 .. Len(s) : s[k] \in A
    BY ElementOfSeq
  <1> QED
    BY <1>1 DEF Lowered

(* What follows a 0x, or all of a word that does not begin with one.         *)
Body(s) ==
  LET low == Lowered(s)
  IN  IF IsPrefix(HexPrefix, low) THEN SubSeq(low, Len(HexPrefix) + 1, Len(low)) ELSE low

LEMMA BodyType ==
  ASSUME NEW A, NEW s \in Seq(A)
  PROVE  Body(s) \in Seq({Lower[c] : c \in A})
  <1>1. PICK low, B : low = Lowered(s) /\ B = {Lower[c] : c \in A}
    OBVIOUS
  <1>2. low \in Seq(B)
    BY <1>1, LoweredIs
  <1>3. CASE IsPrefix(HexPrefix, low)
    <2>1. Len(HexPrefix) \in Nat /\ Len(HexPrefix) <= Len(low)
      BY <1>2, <1>3, NumberFacts DEF IsPrefix
    <2>2. SubSeq(low, Len(HexPrefix) + 1, Len(low)) \in Seq(B)
      <3>1. \A i \in Len(HexPrefix) + 1 .. Len(low) : i \in 1 .. Len(low) /\ low[i] \in B
        BY <1>2, <2>1, ElementOfSeq
      <3> QED
        BY <1>2, <2>1, SubSeqProperties
    <2> QED
      BY <1>1, <1>3, <2>2 DEF Body
  <1>4. CASE ~IsPrefix(HexPrefix, low)
    BY <1>1, <1>2, <1>4 DEF Body
  <1> QED
    BY <1>3, <1>4

LEMMA HexReads ==
  ASSUME NEW A, NEW h \in Seq(A), NEW f \in [0 .. Len(h) -> HexReading],
         f[0] = [ok |-> TRUE, val |-> 0, n |-> 0],
         \A n \in 1 .. Len(h) : f[n] = HexStep(f[n - 1], h[n]), h # <<>>
  PROVE  /\ f[Len(h)].ok <=> (Reads(HexDigits, h) /\ Len(h) <= MaxHexDigits)
         /\ f[Len(h)].ok => f[Len(h)].val = Value(HexDigits, h)
  <1> DEFINE N == Len(h)
             b == Len(HexDigits)
  <1>1. N \in Nat /\ DOMAIN h = 1 .. N /\ b \in Nat \ {0} /\ MaxHexDigits \in Nat /\ N \in 0 .. N
    BY NumberFacts
  <1>2. \A n \in 1 .. N : n - 1 \in 0 .. N /\ n \in 0 .. N /\ f[n - 1] \in HexReading /\ n \in Nat
    BY <1>1
  <1>3. CASE Reads(HexDigits, h)
    <2>1. \A i \in 1 .. N : Contains(HexDigits, h[i])
      BY <1>1, <1>3 DEF Reads
    <2>2. PICK v : Horner(v, HexDigits, h)
      BY <1>1, <2>1, HornerExists
    <2>3. Value(HexDigits, h) = v[N]
      BY <1>1, <2>1, <2>2, ValueIs
    <2>4. v[0] = 0 /\ \A n \in 1 .. N : v[n] = v[n - 1] * b + Digit(HexDigits, h[n])
      BY <2>2 DEF Horner
    <2> DEFINE S == {n \in 0 .. N : (f[n].ok <=> n <= MaxHexDigits) /\ (f[n].ok => f[n].val = v[n] /\ f[n].n = n)}
    <2>5. 0 \in S
      BY <1>1, <2>4
    <2>6. ASSUME NEW n \in 1 .. N, n - 1 \in S PROVE n \in S
      <3>1. PICK r, q, d : r = f[n - 1] /\ q = f[n] /\ d = Digit(HexDigits, h[n])
        OBVIOUS
      <3>2. /\ r \in HexReading /\ q = HexStep(r, h[n]) /\ Contains(HexDigits, h[n])
            /\ v[n] = v[n - 1] * b + d /\ n \in 0 .. N /\ n \in Nat
            /\ (r.ok <=> n - 1 <= MaxHexDigits) /\ (r.ok => r.val = v[n - 1] /\ r.n = n - 1)
        BY <1>2, <2>1, <2>4, <2>6, <3>1
      <3>3. /\ q.ok <=> (r.ok /\ r.n # MaxHexDigits)
            /\ q.ok => q.val = r.val * b + d /\ q.n = r.n + 1
        BY <3>1, <3>2, HexStepIs
      <3>4. q.ok <=> n <= MaxHexDigits
        BY <1>1, <3>2, <3>3
      <3>5. q.ok => q.val = v[n] /\ q.n = n
        BY <3>2, <3>3
      <3> QED
        BY <3>1, <3>2, <3>4, <3>5
    <2>7. \A n \in 0 .. N : n \in S
      <3> HIDE DEF S, N
      <3> QED
        BY <1>1, <2>5, <2>6, Counting
    <2>8. (f[N].ok <=> N <= MaxHexDigits) /\ (f[N].ok => f[N].val = v[N])
      BY <1>1, <2>7
    <2> QED
      BY <1>3, <2>3, <2>8
  <1>4. CASE ~Reads(HexDigits, h)
    <2>1. PICK i \in 1 .. N : ~Contains(HexDigits, h[i])
      BY <1>1, <1>4 DEF Reads
    <2> DEFINE S == {n \in 0 .. N : n >= i => ~f[n].ok}
    <2>2. 0 \in S
      BY <1>1
    <2>3. ASSUME NEW n \in 1 .. N, n - 1 \in S PROVE n \in S
      <3>1. f[n - 1] \in HexReading /\ f[n] = HexStep(f[n - 1], h[n]) /\ n \in 0 .. N /\ n \in Nat
        BY <1>2
      <3>2. f[n].ok => f[n - 1].ok /\ Contains(HexDigits, h[n])
        BY <3>1, HexStepIs
      <3>3. n >= i => n = i \/ n - 1 >= i
        BY <1>1, <3>1
      <3> QED
        BY <2>1, <2>3, <3>1, <3>2, <3>3
    <2>4. \A n \in 0 .. N : n \in S
      <3> HIDE DEF S, N
      <3> QED
        BY <1>1, <2>2, <2>3, Counting
    <2>5. ~f[N].ok
      <3>1. N >= i
        BY <1>1
      <3> QED
        BY <1>1, <2>4, <3>1
    <2> QED
      BY <1>4, <2>5
  <1> QED
    BY <1>3, <1>4

(* parse_hex: the value of the digits that follow 0x, however many words     *)
(* they would fill being counted by their number.                            *)
LEMMA ParseHexIs ==
  ASSUME NEW A, NEW s \in Seq(A)
  PROVE  /\ ParseHex(s).ok <=> (Reads(HexDigits, Body(s)) /\ Len(Body(s)) <= MaxHexDigits)
         /\ ParseHex(s).ok => ParseHex(s).val = Value(HexDigits, Body(s))
  <1>1. PICK h \in Seq({Lower[c] : c \in A}) : h = Body(s)
    BY BodyType
  <1> DEFINE N == Len(h)
             x == [ok |-> TRUE, val |-> 0, n |-> 0]
             Is(f) == f = [n \in 0 .. N |-> IF n = 0 THEN x ELSE HexStep(f[n - 1], h[n])]
             read == CHOOSE f : Is(f)
  <1>2. ParseHex(s) = IF h = <<>> \/ ~read[N].ok THEN Refusal ELSE [ok |-> TRUE, val |-> read[N].val]
    BY <1>1 DEF ParseHex, Body
  <1>3. CASE h = <<>>
    <2>1. ~Refusal.ok
      BY DEF Refusal
    <2>2. ~Reads(HexDigits, h)
      BY <1>3 DEF Reads
    <2> HIDE DEF read
    <2> QED
      BY <1>1, <1>2, <1>3, <2>1, <2>2
  <1>4. CASE h # <<>>
    <2>1. Len(h) \in Nat
      OBVIOUS
    <2>2. PICK f \in [0 .. Len(h) -> HexReading] :
               /\ f[0] = x
               /\ \A n \in 1 .. Len(h) : f[n] = HexStep(f[n - 1], h[n])
               /\ read[Len(h)] = f[Len(h)]
      BY <2>1, ReadsHexRuns
    <2> HIDE DEF read
    <2>3. /\ f[Len(h)].ok <=> (Reads(HexDigits, h) /\ Len(h) <= MaxHexDigits)
          /\ f[Len(h)].ok => f[Len(h)].val = Value(HexDigits, h)
      BY <1>4, <2>2, HexReads
    <2>4. f[Len(h)].ok \in BOOLEAN
      BY <2>1, <2>2 DEF HexReading
    <2>5. ParseHex(s) = IF ~f[Len(h)].ok THEN Refusal ELSE [ok |-> TRUE, val |-> f[Len(h)].val]
      BY <1>2, <1>4, <2>2
    <2>6. (ParseHex(s).ok <=> f[Len(h)].ok) /\ (ParseHex(s).ok => ParseHex(s).val = f[Len(h)].val)
      <3>1. CASE f[Len(h)].ok
        BY <2>5, <3>1
      <3>2. CASE ~f[Len(h)].ok
        BY <2>5, <3>2 DEF Refusal
      <3> QED
        BY <3>1, <3>2
    <2> QED
      BY <1>1, <2>3, <2>6
  <1> QED
    BY <1>3, <1>4


LEMMA ParsesFollows == PInv => ParsesExactly
  <1> SUFFICES ASSUME PInv PROVE ParsesExactly
    OBVIOUS
  <1>1. PICK q \in Lines : Holds(q)
    BY DEF PInv
  <1>2. Line = q
    BY <1>1, LineIs DEF Line, Holds
  <1>3. q \in Texts
    BY DEF Lines
  <1>4. PICK w : w = Words(q)
    OBVIOUS
  <1>5. w \in Seq(Spaceless)
    BY <1>3, <1>4, WordsType
  <1>6. ASSUME NEW k \in DOMAIN w, NEW s, s = w[k]
        PROVE  /\ ParseDec(s).ok <=> (Reads(DecDigits, s) /\ Value(DecDigits, s) <= WordMax)
               /\ ParseDec(s).ok => ParseDec(s).val = Value(DecDigits, s)
               /\ ParseHex(s).ok <=> (Reads(HexDigits, Body(s)) /\ Len(Body(s)) <= MaxHexDigits)
               /\ ParseHex(s).ok => ParseHex(s).val = Value(HexDigits, Body(s))
    <2>1. s \in Spaceless
      <3>1. k \in 1 .. Len(w)
        BY <1>5
      <3> QED
        BY <1>5, <1>6, <3>1, ElementOfSeq, Zenon
    <2>2. s \in Seq(Shown \ {Space})
      BY <2>1 DEF Spaceless
    <2> QED
      BY <2>2, ParseDecIs, ParseHexIs
  <1> QED
    BY <1>2, <1>4, <1>6, Zenon DEF ParsesExactly, Body

(* ParsesExactly, at every word of a line: parse_dec and parse_hex accept    *)
(* what has a value that fits, with that value, and refuse all else.         *)
THEOREM NumbersAreExact == PSpec => []ParsesExactly
  BY PromptHolds, ParsesFollows, PTL

-----------------------------------------------------------------------------
(* What rdsect and wrsect ask of a disk.                                     *)
LEMMA HalfFacts ==
  ASSUME NEW n \in Nat \ {0}, n % 2 = 0
  PROVE  n \div 2 \in Nat \ {0} /\ 2 * (n \div 2) = n
  OBVIOUS

LEMMA ModFacts ==
  ASSUME NEW i \in Nat, NEW h \in Nat \ {0}
  PROVE  i % h \in 0 .. h - 1
  OBVIOUS

(* The two digits of a byte have its value.                                  *)
LEMMA ByteIs ==
  ASSUME NEW A, NEW s \in Seq(A), NEW k \in Nat \ {0}, 2 * k <= Len(s),
         \A j \in 1 .. Len(s) : Contains(HexDigits, s[j])
  PROVE  Value(HexDigits, SubSeq(s, 2 * k - 1, 2 * k)) = ByteAt(s, k)
  <1>1. PICK m, n : m = 2 * k - 1 /\ n = 2 * k
    OBVIOUS
  <1>2. m \in Nat \ {0} /\ n \in Nat /\ m <= n + 1 /\ n <= Len(s) /\ n + 1 - m = 2 /\ n = m + 1
        /\ m \in 1 .. Len(s) /\ n \in 1 .. Len(s)
    BY <1>1
  <1>3. PICK u : u = SubSeq(s, m, n)
    OBVIOUS
  <1>4. u = [j \in 1 .. n + 1 - m |-> s[m + j - 1]] /\ u \in Seq(A) /\ Len(u) = n + 1 - m
    BY <1>2, <1>3, SubSeqIs
  <1>5. Len(u) = 2 /\ u[1] = s[m] /\ u[2] = s[n]
    BY <1>2, <1>4
  <1>6. \A j \in 1 .. Len(u) : Contains(HexDigits, u[j])
    <2>1. \A j \in 1 .. 2 : j = 1 \/ j = 2
      OBVIOUS
    <2> QED
      BY <1>2, <1>5, <2>1
  <1>7. Len(HexDigits) \in Nat \ {0} /\ Len(u) \in Nat
    BY <1>5, NumberFacts
  <1>8. PICK h : Horner(h, HexDigits, u)
    BY <1>6, <1>7, HornerExists
  <1>9. Value(HexDigits, u) = h[2]
    BY <1>5, <1>6, <1>7, <1>8, ValueIs
  <1>10. PICK c, d : c = Digit(HexDigits, s[m]) /\ d = Digit(HexDigits, s[n])
    OBVIOUS
  <1>11. c \in Nat /\ d \in Nat
    BY <1>2, <1>7, <1>10, DigitType
  <1>12. h[0] = 0 /\ h[1] = h[0] * Len(HexDigits) + c /\ h[2] = h[1] * Len(HexDigits) + d
    <2>1. h[0] = 0 /\ \A j \in 1 .. 2 : h[j] = h[j - 1] * Len(HexDigits) + Digit(HexDigits, u[j])
      BY <1>5, <1>8 DEF Horner
    <2>2. 1 \in 1 .. 2 /\ 2 \in 1 .. 2 /\ 1 - 1 = 0 /\ 2 - 1 = 1
      OBVIOUS
    <2> QED
      BY <1>5, <1>10, <2>1, <2>2
  <1>13. h[2] = c * Len(HexDigits) + d
    BY <1>7, <1>11, <1>12
  <1>14. ByteAt(s, k) = c * Len(HexDigits) + d
    BY <1>1, <1>10 DEF ByteAt
  <1> QED
    BY <1>1, <1>3, <1>9, <1>13, <1>14

Named(w) == w[2] \in DiskNames
Rest(w) == IF Named(w) THEN SubSeq(w, 3, Len(w)) ELSE Tail(w)
Pattern(w) == Lowered(Rest(w)[2])

(* disco_da_argv: the disk is the one the line names, or the default one, and *)
(* the words that follow are the arguments.                                  *)
Located(w, d) ==
  /\ d.primo \in {1, 2} /\ d.b = (IF Named(w) THEN w[2] ELSE DefaultDisk)
  /\ Len(Rest(w)) = Len(w) - d.primo
  /\ \A k \in 1 .. Len(w) - d.primo : Rest(w)[k] = w[k + d.primo]

LEMMA DiskIs ==
  ASSUME NEW w \in Seq(Spaceless), NEW d, d = DiscoDaArgv(w), d.b # <<>>, Len(w) >= d.primo + 1
  PROVE  Located(w, d)
  <1>1. Len(w) \in Nat
    OBVIOUS
  <1>2. d.primo \in {1, 2} /\ Len(w) > 1
    BY <1>1 DEF DiscoDaArgv
  <1>3. w[2] \in Spaceless
    <2>1. 2 \in 1 .. Len(w)
      BY <1>1, <1>2
    <2> QED
      BY <2>1, ElementOfSeq, Zenon
  <1>4. PICK s : s = w[2]
    OBVIOUS
  <1>5. s \in Seq(Shown \ {Space}) /\ s # <<>>
    BY <1>3, <1>4 DEF Spaceless
  <1>6. CASE ParseDec(s).ok
    <2>1. d = [b |-> DiskOf(DefaultDisk), primo |-> 1]
      BY <1>2, <1>4, <1>6 DEF DiscoDaArgv
    <2>2. d.b = DefaultDisk /\ d.primo = 1
      BY <2>1 DEF DiskOf
    <2>3. Reads(DecDigits, s)
      BY <1>5, <1>6, ParseDecIs
    <2>4. Contains(DecDigits, s[1])
      BY <1>5, <2>3 DEF Reads
    <2>5. ~Named(w)
      BY <1>4, <2>4, PromptAssumption DEF Named
    <2>6. Rest(w) = Tail(w) /\ w # <<>>
      BY <1>2, <2>5 DEF Rest
    <2>7. Len(Tail(w)) = Len(w) - 1 /\ \A k \in 1 .. Len(w) - 1 : Tail(w)[k] = w[k + 1]
      BY <2>6, HeadTailProperties
    <2> QED
      BY <2>2, <2>5, <2>6, <2>7 DEF Located
  <1>7. CASE ~ParseDec(s).ok
    <2>1. d = [b |-> DiskOf(s), primo |-> 2]
      BY <1>2, <1>4, <1>7 DEF DiscoDaArgv
    <2>2. s \in DiskNames /\ d.b = s /\ d.primo = 2
      BY <2>1 DEF DiskOf
    <2>3. Named(w)
      BY <1>4, <2>2 DEF Named
    <2>4. Rest(w) = SubSeq(w, 3, Len(w))
      BY <2>3 DEF Rest
    <2>5. /\ SubSeq(w, 3, Len(w)) = [k \in 1 .. Len(w) + 1 - 3 |-> w[3 + k - 1]]
          /\ Len(SubSeq(w, 3, Len(w))) = Len(w) + 1 - 3
      <3>1. PICK m, n : m = 3 /\ n = Len(w)
        OBVIOUS
      <3>2. m \in Nat \ {0} /\ n \in Nat /\ m <= n + 1 /\ n <= Len(w)
        BY <1>1, <1>2, <3>1
      <3>3. SubSeq(w, m, n) = [k \in 1 .. n + 1 - m |-> w[m + k - 1]] /\ Len(SubSeq(w, m, n)) = n + 1 - m
        BY <3>2, SubSeqIs
      <3> QED
        BY <3>1, <3>3
    <2>6. Len(Rest(w)) = Len(w) - 2 /\ \A k \in 1 .. Len(w) - 2 : Rest(w)[k] = w[k + 2]
      <3> HIDE DEF Rest
      <3>1. Len(w) + 1 - 3 = Len(w) - 2 /\ \A k \in 1 .. Len(w) - 2 : 3 + k - 1 = k + 2
        BY <1>1
      <3> QED
        BY <2>4, <2>5, <3>1
    <2> QED
      BY <1>4, <2>2, <2>3, <2>6 DEF Located
  <1> QED
    BY <1>6, <1>7


(* What the property says of a disk that was asked something, the words w    *)
(* being those of the line.                                                  *)
AsTyped(w, a) ==
  /\ w[1] = (IF a.op = "read" THEN RdsectName ELSE WrsectName)
  /\ a.b = (IF Named(w) THEN w[2] ELSE DefaultDisk)
  /\ Reads(DecDigits, Rest(w)[1]) /\ a.lba = Value(DecDigits, Rest(w)[1])
  /\ a.op = "write" =>
       /\ Len(Rest(w)) = 2 /\ Reads(HexDigits, Pattern(w))
       /\ \A i \in 0 .. SECTOR_SIZE - 1 :
            \E k \in 1 .. Len(Pattern(w)) \div 2 :
              /\ i % (Len(Pattern(w)) \div 2) = k - 1
              /\ a.data[i] = Value(HexDigits, SubSeq(Pattern(w), 2 * k - 1, 2 * k))
  /\ a.op = "read" => a.n <= SECTOR_SIZE

(* The number of a sector is the first argument.                             *)
LEMMA LbaIs ==
  ASSUME NEW w \in Seq(Spaceless), NEW d, Located(w, d), Len(w) >= d.primo + 1,
         ParseDec(w[d.primo + 1]).ok
  PROVE  /\ Reads(DecDigits, Rest(w)[1])
         /\ ParseDec(w[d.primo + 1]).val = Value(DecDigits, Rest(w)[1])
  <1>1. PICK n, p : n = Len(w) /\ p = d.primo
    OBVIOUS
  <1>2. n \in Nat /\ p \in {1, 2} /\ n >= p + 1
    BY <1>1 DEF Located
  <1>3. 1 \in 1 .. n - p /\ p + 1 \in 1 .. n /\ 1 + p = p + 1
    BY <1>2
  <1>4. Rest(w)[1] = w[p + 1]
    BY <1>1, <1>3 DEF Located
  <1>5. w[p + 1] \in Spaceless
    BY <1>1, <1>3, ElementOfSeq, Zenon
  <1>6. PICK s : s = w[p + 1]
    OBVIOUS
  <1>7. s \in Seq(Shown \ {Space})
    BY <1>5, <1>6 DEF Spaceless
  <1>8. ParseDec(s).ok
    BY <1>1, <1>6
  <1> QED
    BY <1>1, <1>4, <1>6, <1>7, <1>8, ParseDecIs

LEMMA ReadAsTyped ==
  ASSUME NEW w \in Seq(Spaceless), w # <<>>, w[1] = RdsectName, NEW a, a = RdsectAsks(w), a # NoSector
  PROVE  AsTyped(w, a)
  <1> DEFINE n == IF Len(w) = DiscoDaArgv(w).primo + 2 THEN ParseDec(w[DiscoDaArgv(w).primo + 2])
                  ELSE [ok |-> TRUE, val |-> SECTOR_SIZE]
  <1>1. PICK d : d = DiscoDaArgv(w)
    OBVIOUS
  <1>2. /\ ~(Len(w) < d.primo + 1) /\ d.b # <<>> /\ ParseDec(w[d.primo + 1]).ok /\ n.ok
        /\ a = [op |-> "read", b |-> d.b, lba |-> ParseDec(w[d.primo + 1]).val, n |-> Min({n.val, SECTOR_SIZE})]
    <2> HIDE DEF n
    <2> QED
      BY <1>1 DEF RdsectAsks, n
  <1>3. Len(w) >= d.primo + 1 /\ Len(w) \in Nat
    BY <1>1, <1>2 DEF DiscoDaArgv
  <1>4. Located(w, d)
    BY <1>1, <1>2, <1>3, DiskIs
  <1>5. /\ Reads(DecDigits, Rest(w)[1])
        /\ ParseDec(w[d.primo + 1]).val = Value(DecDigits, Rest(w)[1])
    BY <1>2, <1>3, <1>4, LbaIs
  <1>6. n.val \in Nat
    <2>1. CASE Len(w) = d.primo + 2
      <3>1. PICK m : m = d.primo + 2
        OBVIOUS
      <3>2. m \in 1 .. Len(w)
        BY <1>3, <2>1, <3>1
      <3>3. w[m] \in Spaceless
        BY <3>2, ElementOfSeq, Zenon
      <3>4. PICK s : s = w[m]
        OBVIOUS
      <3>5. s \in Seq(Shown \ {Space})
        BY <3>3, <3>4 DEF Spaceless
      <3>6. n = ParseDec(s)
        BY <1>1, <2>1, <3>1, <3>4
      <3> QED
        BY <3>5, <3>6, ParseDecType
    <2>2. CASE Len(w) # d.primo + 2
      BY <1>1, <2>2, PromptAssumption
    <2> QED
      BY <2>1, <2>2
  <1>7. Min({n.val, SECTOR_SIZE}) <= SECTOR_SIZE
    <2>1. PICK v : v = n.val
      OBVIOUS
    <2> HIDE DEF n
    <2>2. v \in Nat /\ SECTOR_SIZE \in Nat
      BY <1>6, <2>1, PromptAssumption
    <2>3. Min({v, SECTOR_SIZE}) <= SECTOR_SIZE
      BY <2>2, MinOfTwo
    <2> QED
      BY <2>1, <2>3
  <1> HIDE DEF n
  <1>8. /\ a.op = "read" /\ a.b = d.b /\ a.n = Min({n.val, SECTOR_SIZE})
        /\ a.lba = ParseDec(w[d.primo + 1]).val
    BY <1>2
  <1> QED
    BY <1>4, <1>5, <1>7, <1>8 DEF AsTyped, Located


LEMMA WriteAsTyped ==
  ASSUME NEW w \in Seq(Spaceless), w # <<>>, w[1] = WrsectName, NEW a, a = WrsectAsks(w), a # NoSector
  PROVE  AsTyped(w, a)
  <1>1. PICK d, p : d = DiscoDaArgv(w) /\ p = d.primo
    OBVIOUS
  <1>2. PICK word, hex : word = w[p + 2] /\ hex = Lowered(word)
    OBVIOUS
  <1>3. PICK byte : byte = [i \in 0 .. SECTOR_SIZE - 1 |-> ByteAt(hex, (i % (Len(hex) \div 2)) + 1)]
    OBVIOUS
  <1>4. /\ Len(w) = p + 2 /\ d.b # <<>> /\ ParseDec(w[p + 1]).ok
        /\ hex # <<>> /\ IsPattern(hex)
        /\ a = [op |-> "write", b |-> d.b, lba |-> ParseDec(w[p + 1]).val, data |-> byte]
    BY <1>1, <1>2, <1>3 DEF WrsectAsks
  <1>5. p \in {1, 2} /\ Len(w) \in Nat /\ Len(w) >= p + 1
    <2>1. p \in {1, 2}
      BY <1>1 DEF DiscoDaArgv
    <2> QED
      BY <1>4, <2>1
  <1>6. Located(w, d)
    BY <1>1, <1>4, <1>5, DiskIs
  <1>7. /\ Reads(DecDigits, Rest(w)[1])
        /\ ParseDec(w[p + 1]).val = Value(DecDigits, Rest(w)[1])
    BY <1>1, <1>4, <1>5, <1>6, LbaIs
  <1>8. Len(Rest(w)) = 2 /\ Pattern(w) = hex
    <2>1. Len(w) - p = 2 /\ 2 \in 1 .. Len(w) - p
      BY <1>4, <1>5
    <2>2. 2 + p = p + 2
      BY <1>5
    <2> QED
      BY <1>1, <1>2, <1>6, <2>1, <2>2 DEF Located, Pattern
  <1>9. hex \in Seq({Lower[c] : c \in Shown \ {Space}})
    <2>1. PICK m : m = p + 2
      OBVIOUS
    <2>2. m \in 1 .. Len(w)
      BY <1>4, <1>5, <2>1
    <2>3. w[m] \in Spaceless
      BY <2>2, ElementOfSeq, Zenon
    <2>4. word \in Seq(Shown \ {Space})
      BY <1>2, <2>1, <2>3 DEF Spaceless
    <2> QED
      BY <1>2, <2>4, LoweredIs
  <1>10. PICK n : n = Len(hex)
    OBVIOUS
  <1>11. n \in Nat \ {0} /\ n % 2 = 0 /\ DOMAIN hex = 1 .. n /\ \A j \in 1 .. n : Contains(HexDigits, hex[j])
    BY <1>4, <1>9, <1>10 DEF IsPattern
  <1>12. PICK half : half = n \div 2
    OBVIOUS
  <1>13. half \in Nat \ {0} /\ 2 * half = n
    BY <1>11, <1>12, HalfFacts
  <1>14. Reads(HexDigits, hex)
    BY <1>4, <1>11 DEF Reads
  <1>15. ASSUME NEW i \in 0 .. SECTOR_SIZE - 1
         PROVE  \E k \in 1 .. half : i % half = k - 1 /\ byte[i] = Value(HexDigits, SubSeq(hex, 2 * k - 1, 2 * k))
    <2>1. PICK r : r = i % half
      OBVIOUS
    <2>2. i \in Nat
      BY PromptAssumption
    <2>3. r \in 0 .. half - 1
      BY <1>13, <2>1, <2>2, ModFacts
    <2>4. PICK k : k = r + 1
      OBVIOUS
    <2>5. k \in 1 .. half /\ r = k - 1 /\ k \in Nat \ {0} /\ 2 * k <= n
      BY <1>13, <2>3, <2>4
    <2>6. Value(HexDigits, SubSeq(hex, 2 * k - 1, 2 * k)) = ByteAt(hex, k)
      BY <1>9, <1>10, <1>11, <2>5, ByteIs
    <2>7. byte[i] = ByteAt(hex, k)
      BY <1>3, <1>10, <1>12, <2>1, <2>4
    <2> QED
      BY <2>1, <2>5, <2>6, <2>7
  <1>16. /\ a.op = "write" /\ a.b = d.b /\ a.lba = ParseDec(w[p + 1]).val /\ a.data = byte
    BY <1>4
  <1>17. a.b = (IF Named(w) THEN w[2] ELSE DefaultDisk)
    BY <1>6, <1>16 DEF Located
  <1>18. \A i \in 0 .. SECTOR_SIZE - 1 :
           \E k \in 1 .. Len(Pattern(w)) \div 2 :
             /\ i % (Len(Pattern(w)) \div 2) = k - 1
             /\ a.data[i] = Value(HexDigits, SubSeq(Pattern(w), 2 * k - 1, 2 * k))
    <2>1. Len(Pattern(w)) \div 2 = half
      BY <1>8, <1>10, <1>12
    <2> QED
      BY <1>8, <1>15, <1>16, <2>1, Zenon
  <1>19. a.op = "write" /\ ~(a.op = "read")
    BY <1>16
  <1> QED
    BY <1>7, <1>8, <1>14, <1>16, <1>17, <1>18, <1>19, Zenon DEF AsTyped

LEMMA SectorFollows == PInv => SectorAsTyped
  <1> SUFFICES ASSUME PInv, at = "prompt", sector.op # "none" PROVE SectorAsTyped
    BY DEF SectorAsTyped
  <1>1. PICK w : w = Args(LineOf(seen))
    OBVIOUS
  <1>2. sector # NoSector
    BY DEF NoSector
  <1>3. /\ seen \in Lines /\ w # <<>>
        /\ \/ w[1] = RdsectName /\ sector = RdsectAsks(w)
           \/ w[1] = WrsectName /\ sector = WrsectAsks(w)
    BY <1>1, <1>2 DEF PInv, Ran
  <1>4. w = SubSeq(Words(seen), 1, Min({Len(Words(seen)), SHELL_MAX_ARGS})) /\ w \in Seq(Spaceless)
    BY <1>1, <1>3, ArgvType DEF Took
  <1>5. AsTyped(w, sector)
    BY <1>2, <1>3, <1>4, ReadAsTyped, WriteAsTyped
  <1> QED
    BY <1>4, <1>5, Zenon DEF SectorAsTyped, AsTyped, Named, Rest, Pattern

(* SectorAsTyped: rdsect and wrsect work only on the disk and the sector the *)
(* line names, and wrsect writes the bytes its pattern spells.               *)
THEOREM SectorsAreThoseTyped == PSpec => []SectorAsTyped
  BY PromptHolds, SectorFollows, PTL

=============================================================================
