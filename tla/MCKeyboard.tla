----------------------------- MODULE MCKeyboard -----------------------------
(* The decoder on a keyboard of one letter and shift, with their releases   *)
(* and the extended prefix.                                                *)
EXTENDS Keyboard

LetterMake  == 30
LetterBreak == 158
ShiftBreak  == LShift + BreakBit

MCScancodes == {LetterMake, LetterBreak, LShift, ShiftBreak, Extended}

MCNormalTable == [s \in Chars |-> IF s = LetterMake THEN 97 ELSE 0]
MCShiftTable  == [s \in Chars |-> IF s = LetterMake THEN 65 ELSE 0]

=============================================================================
