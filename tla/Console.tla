------------------------------ MODULE Console ------------------------------
(***************************************************************************)
(* Output shared by all the tasks: vga.c, serial.c and the sink of kprintf *)
(* (kprintf.c).  A task is preempted between any two steps, except in the  *)
(* critical section of vga_putc.  A string is as many calls as it has      *)
(* characters: kvprintf, vga_dev_write and serial_dev_write only loop, and *)
(* keep nothing shared.                                                    *)
(*                                                                         *)
(* The UART and the registers of the display controller are external: the  *)
(* transmit bit is on while the transmit queue is empty, and a port write  *)
(* reaches the register that the shared index names.                       *)
(***************************************************************************)
EXTENDS Vga, FiniteSets

CONSTANTS
  Task,          \* the tasks that print
  Clearer,       \* the one that may clear the screen, if any: the shell
  FIFO_DEPTH,    \* bytes the UART holds, 16
  LowBase        \* what the low byte of the cursor counts up to, 256

ASSUME ConsoleAssumption ==
  /\ IsFiniteSet(Task) /\ Clearer \subseteq Task
  /\ \A t, u \in Clearer : t = u
  /\ FIFO_DEPTH \in Nat /\ Cardinality(Task) <= FIFO_DEPTH
  /\ LowBase \in Nat \ {0}

VARIABLES
  vga,           \* the text memory and the static cursor of vga.c
  crtc,          \* the index register and the two halves of the hardware cursor
  fifo,          \* bytes in the UART
  call,          \* where each task is in its call
  alone          \* history: the last position taken was written with nobody
                 \* else between taking one and writing it

vars == <<vga, crtc, fifo, call, alone>>

Idle == [at |-> "idle", then |-> "idle", ch |-> Space, n |-> 0, k |-> 1]

At(t, where) == call[t].at = where
Goes(t, c) == call' = [call EXCEPT ![t] = c]

(* mistake: vga_putc without its critical section. *)
RunsAlways(t) == TRUE

(* irq_save: while a task is in the critical section nobody else runs. *)
Runs(t) == \A u \in Task \ {t} : ~At(u, "move")

(* From here to the last port write a task carries a position. *)
Carries(t) == At(t, "out")
Takes(t) == alone' = \A u \in Task \ {t} : ~Carries(u)

ScreenElse == UNCHANGED <<vga, crtc, alone>>

-----------------------------------------------------------------------------
(* serial_putc, alone (ttyS0) or as the first half of kputc_console. *)

SerialPutc(t) ==
  /\ Runs(t) /\ At(t, "idle")
  /\ \E next \in {"idle", "cell"} : Goes(t, [Idle EXCEPT !.at = "wait", !.then = next])
  /\ ScreenElse /\ UNCHANGED fifo

(* mistakes: no test at all; the bit of the receiver, where nothing comes. *)
LsrIgnored == TRUE
LsrDataReady == FALSE

LsrTxEmpty == fifo = 0

SerialTest(t) ==
  /\ Runs(t) /\ At(t, "wait")
  /\ Goes(t, IF LsrTxEmpty THEN [call[t] EXCEPT !.at = "send"] ELSE call[t])
  /\ ScreenElse /\ UNCHANGED fifo

SerialSend(t) ==
  /\ Runs(t) /\ At(t, "send")
  /\ fifo' = fifo + 1
  /\ Goes(t, [Idle EXCEPT !.at = call[t].then])
  /\ ScreenElse

(* The UART sends a byte. *)
Drain ==
  /\ fifo > 0
  /\ fifo' = fifo - 1
  /\ ScreenElse /\ UNCHANGED call

-----------------------------------------------------------------------------
(* vga_putc: the critical section, then set_cursor. *)

ConsoleWrite(t) ==
  /\ Runs(t) /\ At(t, "idle")
  /\ Goes(t, [Idle EXCEPT !.at = "cell"])
  /\ ScreenElse /\ UNCHANGED fifo

VgaStore(t) ==
  /\ Runs(t) /\ At(t, "cell")
  /\ \E c \in Chars :
       /\ vga' = [vga EXCEPT !.cells = Stored(@, vga.cursor, c)]
       /\ Goes(t, [Idle EXCEPT !.at = "move", !.ch = c])
  /\ UNCHANGED <<crtc, fifo, alone>>

(* mistake: the position is taken before the end of the screen is seen to. *)
VgaMoveEarly(t) ==
  /\ Runs(t) /\ At(t, "move")
  /\ vga' = Advanced(vga, call[t].ch)
  /\ Goes(t, [Idle EXCEPT !.at = "out", !.n = Moved(vga.cursor, call[t].ch)])
  /\ Takes(t)
  /\ UNCHANGED <<crtc, fifo>>

VgaMove(t) ==
  /\ Runs(t) /\ At(t, "move")
  /\ vga' = Advanced(vga, call[t].ch)
  /\ Goes(t, [Idle EXCEPT !.at = "out", !.n = vga'.cursor])
  /\ Takes(t)
  /\ UNCHANGED <<crtc, fifo>>

(* set_cursor: two writes of the index, each followed by one of the datum. *)
OutB(k, pos) ==
  CASE k = 1 -> [crtc EXCEPT !.index = "low"]
    [] k = 2 -> [crtc EXCEPT ![crtc.index] = pos % LowBase]
    [] k = 3 -> [crtc EXCEPT !.index = "high"]
    [] k = 4 -> [crtc EXCEPT ![crtc.index] = pos \div LowBase]

SetCursor(t) ==
  /\ Runs(t) /\ At(t, "out")
  /\ crtc' = OutB(call[t].k, call[t].n)
  /\ Goes(t, IF call[t].k = 4 THEN Idle ELSE [call[t] EXCEPT !.k = @ + 1])
  /\ UNCHANGED <<vga, fifo, alone>>

(* vga_clear has no critical section. *)
ClearHome(t) ==
  /\ Runs(t) /\ At(t, "idle") /\ t \in Clearer
  /\ vga' = [vga EXCEPT !.cursor = 0]
  /\ Goes(t, [Idle EXCEPT !.at = "wipe"])
  /\ UNCHANGED <<crtc, fifo, alone>>

ClearCell(t) ==
  /\ Runs(t) /\ At(t, "wipe") /\ call[t].n < Size
  /\ vga' = [vga EXCEPT !.cells[call[t].n] = Space]
  /\ Goes(t, [call[t] EXCEPT !.n = @ + 1])
  /\ UNCHANGED <<crtc, fifo, alone>>

ClearCursor(t) ==
  /\ Runs(t) /\ At(t, "wipe") /\ call[t].n = Size
  /\ Goes(t, [Idle EXCEPT !.at = "out", !.n = vga.cursor])
  /\ Takes(t)
  /\ UNCHANGED <<vga, crtc, fifo>>

-----------------------------------------------------------------------------

(* vga_init and serial_init have run. *)
Init ==
  /\ vga = [cells |-> Cleared, cursor |-> 0]
  /\ crtc = [index |-> "high", low |-> 0, high |-> 0]
  /\ fifo = 0
  /\ call = [t \in Task |-> Idle]
  /\ alone = TRUE

GoesOn(t) ==
  \/ SerialTest(t) \/ SerialSend(t) \/ VgaStore(t) \/ VgaMove(t) \/ SetCursor(t)
  \/ ClearCell(t) \/ ClearCursor(t)

Next ==
  \/ \E t \in Task : SerialPutc(t) \/ ConsoleWrite(t) \/ ClearHome(t) \/ GoesOn(t)
  \/ Drain

(* The scheduler gives every task its turn, again and again (NoStarvation   *)
(* of Scheduler): a step that is possible whenever the task has the CPU is  *)
(* taken.  A turn lasts 10 ms and the UART empties its queue in less, with  *)
(* nobody else filling it meanwhile: a task polling sees the bit.           *)
Fairness ==
  /\ \A t \in Task : SF_vars(GoesOn(t))
  /\ WF_vars(Drain)

Spec == Init /\ [][Next]_vars /\ Fairness

-----------------------------------------------------------------------------
TypeOK ==
  /\ vga \in [cells : [Cells -> Shown], cursor : Cells]
  /\ crtc \in [index : {"low", "high"}, low : Nat, high : Nat]
  /\ fifo \in Nat /\ alone \in BOOLEAN
  /\ call \in [Task -> [at : {"idle", "wait", "send", "cell", "move", "out", "wipe"},
                         then : {"idle", "cell"}, ch : Chars, n : 0 .. Size, k : 1 .. 4]]

Sending == {t \in Task : At(t, "send")}

(* The UART never has more bytes than it holds.  serial_putc tests the      *)
(* transmit bit and writes in two steps, so several tasks may have seen the *)
(* same empty queue; there are never more of them than tasks.               *)
NoOverrun ==
  /\ fifo + Cardinality(Sending) <= Cardinality(Task)
  /\ fifo <= FIFO_DEPTH

(* Whatever tasks overlap, the screen is a terminal's on which characters    *)
(* were written one after the other: none is lost under another, none leaves *)
(* a hole, the end of the screen scrolls once.  An open critical section     *)
(* counts as done, and a clear as a clear in the middle of the rest.         *)
Completed ==
  IF \E t \in Task : At(t, "move")
    THEN Advanced(vga, call[CHOOSE t \in Task : At(t, "move")].ch) ELSE vga

LeftToWipe == LET T == {t \in Task : At(t, "wipe")}
              IN  IF T = {} THEN 0 ELSE Size - call[CHOOSE t \in T : TRUE].n

Seen(v) == [lines |-> [r \in 1 .. ROWS |-> [c \in 1 .. COLS |-> v.cells[(r - 1) * COLS + c - 1]]],
            row |-> v.cursor \div COLS + 1, col |-> (v.cursor % COLS) + 1]

T == INSTANCE Terminal WITH screen <- Seen(Completed), wiping <- LeftToWipe

ScreenIsTerminal == T!TSpec

(* The position is written to the hardware outside the critical section, in  *)
(* four writes.  It may go wrong when two tasks overlap there, and the next  *)
(* call that does not overlap puts it right (the promise of vga.c:127).      *)
Pointed == crtc.high * LowBase + crtc.low

CursorCatchesUp ==
  (alone /\ \A t \in Task : ~Carries(t) /\ ~At(t, "wipe") /\ ~At(t, "move"))
    => Pointed = vga.cursor

(* Between calls the hardware cursor is where the text is or, when two tasks *)
(* overlapped, one character behind: what vga.c:126-127 says.                *)
CursorAtMostOneBehind ==
  (\A t \in Task : At(t, "idle")) => Pointed \in {vga.cursor, vga.cursor - 1}

(* Every call returns: the poll of the UART ends, with any number of others  *)
(* printing without end, and so does every critical section.                 *)
PutcReturns == \A t \in Task : (~At(t, "idle")) ~> At(t, "idle")

=============================================================================
