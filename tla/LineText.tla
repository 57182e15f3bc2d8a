------------------------------ MODULE LineText ------------------------------
(***************************************************************************)
(* What the shell does with the text of a line (kernel/shell.c): splitting *)
(* it into words, reading numbers.  A line is an array of LINE_MAX places  *)
(* closed by NUL; a word is given by where it begins in it.  Characters are *)
(* those of Vga.                                                           *)
(***************************************************************************)
EXTENDS Vga, SequencesExt

CONSTANTS
  LINE_MAX,           \* places of a line, the closing NUL included
  SHELL_MAX_ARGS,     \* words of a command, its name included
  NUL,                \* closes a string
  DecDigits,          \* the digits, in order: the base is their number
  HexDigits,          \* the same in base 16, a power of two in any case
  HexPrefix,          \* 0x
  Lower,              \* tolower: the small letter of a capital, else the character
  MaxHexDigits,       \* how many digits fill a word, 8
  WordMax             \* 2^32 - 1

ASSUME LineTextAssumption ==
  /\ LINE_MAX \in Nat \ {0} /\ SHELL_MAX_ARGS \in Nat /\ NUL \notin Chars
  /\ Len(DecDigits) \in Nat \ {0} /\ Len(HexDigits) \in Nat \ {0} /\ Len(HexPrefix) \in Nat
  /\ WordMax \in Nat /\ MaxHexDigits \in Nat
  /\ Len(HexDigits) ^ MaxHexDigits = WordMax + 1
  /\ Lower \in [Chars -> Chars]

Places == 0 .. LINE_MAX - 1

FirstFrom(b, l, Wanted) == Min({k \in Places : k >= l /\ b[k] \in Wanted})

(* One turn of the loop of shell_split: a word begun at the first place that *)
(* is no space, unless the line is over or argv is full, and the space after *)
(* it made its NUL.                                                          *)
SplitTurn(r) ==
  LET word == Min({k \in Places : k >= r.l /\ r.buf[k] # Space})
      end  == FirstFrom(r.buf, word, {Space, NUL})
  IN  IF ~r.more \/ r.buf[word] = NUL \/ Len(r.argv) >= SHELL_MAX_ARGS THEN [r EXCEPT !.more = FALSE]
      ELSE IF r.buf[end] = NUL THEN [r EXCEPT !.argv = Append(@, word), !.more = FALSE]
      ELSE [buf |-> [r.buf EXCEPT ![end] = NUL], argv |-> Append(r.argv, word), l |-> end + 1, more |-> TRUE]

(* A word a turn: the last one finds argv full, if none before was the last. *)
ShellSplit(b) ==
  LET turn[n \in 0 .. SHELL_MAX_ARGS + 1] ==
        IF n = 0 THEN [buf |-> b, argv |-> <<>>, l |-> 0, more |-> TRUE] ELSE SplitTurn(turn[n - 1])
  IN  turn[SHELL_MAX_ARGS + 1]

(* The string that begins at place l, and what split made of a line. *)
StringAt(b, l) == [k \in 1 .. FirstFrom(b, l, {NUL}) - l |-> b[l + k - 1]]

Args(b) == LET r == ShellSplit(b) IN [k \in DOMAIN r.argv |-> StringAt(r.buf, r.argv[k])]

-----------------------------------------------------------------------------
Refusal == [ok |-> FALSE, val |-> 0]

Digit(digits, c) == CHOOSE d \in 0 .. Len(digits) - 1 : digits[d + 1] = c

(* mistake: the last number before the overflow is let through with any digit. *)
DecStepLate(r, c) ==
  LET base == Len(DecDigits)
  IN  IF ~r.ok \/ ~Contains(DecDigits, c) \/ r.val > WordMax \div base THEN Refusal
      ELSE [ok |-> TRUE, val |-> (r.val * base + Digit(DecDigits, c)) % (WordMax + 1)]

(* A digit more, unless the number would not fit. *)
DecStep(r, c) ==
  LET base == Len(DecDigits)
      tops == WordMax \div base
      fits == r.val < tops \/ (r.val = tops /\ Digit(DecDigits, c) <= WordMax % base)
  IN  IF ~r.ok \/ ~Contains(DecDigits, c) \/ ~fits THEN Refusal
      ELSE [ok |-> TRUE, val |-> r.val * base + Digit(DecDigits, c)]

ParseDec(s) ==
  LET read[n \in 0 .. Len(s)] ==
        IF n = 0 THEN [ok |-> TRUE, val |-> 0] ELSE DecStep(read[n - 1], s[n])
  IN  IF s = <<>> THEN Refusal ELSE read[Len(s)]

HexStep(r, c) ==
  IF ~r.ok \/ ~Contains(HexDigits, c) \/ r.n = MaxHexDigits THEN [ok |-> FALSE, val |-> 0, n |-> 0]
  ELSE [ok |-> TRUE, val |-> r.val * Len(HexDigits) + Digit(HexDigits, c), n |-> r.n + 1]

(* Capitals count as small letters, in the prefix and in the digits.         *)
Lowered(s) == [k \in 1 .. Len(s) |-> Lower[s[k]]]

ParseHex(s) ==
  LET low == Lowered(s)
      body == IF IsPrefix(HexPrefix, low) THEN SubSeq(low, Len(HexPrefix) + 1, Len(low)) ELSE low
      read[n \in 0 .. Len(body)] ==
        IF n = 0 THEN [ok |-> TRUE, val |-> 0, n |-> 0] ELSE HexStep(read[n - 1], body[n])
  IN  IF body = <<>> \/ ~read[Len(body)].ok THEN Refusal
      ELSE [ok |-> TRUE, val |-> read[Len(body)].val]

(* The bytes of a pattern for a sector, two digits each.                     *)
IsPattern(s) == Len(s) % 2 = 0 /\ \A k \in DOMAIN s : Contains(HexDigits, s[k])
ByteAt(s, i) == Digit(HexDigits, s[2 * i - 1]) * Len(HexDigits) + Digit(HexDigits, s[2 * i])

(* Words put together again with one space between them, as echo and write   *)
(* do: split left none of the spaces.                                        *)
Joined(words) ==
  LET text[n \in 0 .. Len(words)] ==
        IF n = 0 THEN <<>> ELSE text[n - 1] \o (IF n = 1 THEN <<>> ELSE <<Space>>) \o words[n]
  IN  text[Len(words)]

=============================================================================
