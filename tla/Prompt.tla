------------------------------- MODULE Prompt -------------------------------
(***************************************************************************)
(* The prompt: shell_task and shell_exec (shell.c) with the line editor    *)
(* (lineedit.c), on the screen of Vga.  A key is a step, with its echo;    *)
(* what other tasks print in between is the subject of Console.            *)
(***************************************************************************)
EXTENDS LineText

CONSTANTS
  Prompt,                          \* SHELL_PROMPT
  EchoName, ClearName, WriteName,
  RdsectName, WrsectName,          \* five commands of the table
  DiskNames, DefaultDisk,          \* the disks registered, by name; the name "hda"
  SECTOR_SIZE,
  Rows0,                           \* rows the messages of the boot may have left the cursor in
  Typed0,                          \* lines begun before the behaviours do
  MaxKeys                          \* bound of the runs

ASSUME PromptAssumption ==
  /\ Prompt \in Seq(Shown) \ {<<>>}
  /\ Len(Prompt) + LINE_MAX - 1 <= (ROWS - 1) * COLS
  /\ EchoName # ClearName /\ RdsectName # WrsectName /\ WriteName \notin {RdsectName, WrsectName}
  /\ {EchoName, ClearName} \cap {WriteName, RdsectName, WrsectName} = {}
  /\ \A n \in DiskNames : n # <<>> /\ ~Contains(DecDigits, n[1])
  /\ SECTOR_SIZE \in Nat
  /\ Rows0 \subseteq 0 .. ROWS - 1 /\ MaxKeys \in Nat
  /\ \A s \in Typed0 : s \in Seq(Shown) /\ Len(s) < LINE_MAX

VARIABLES
  screen,     \* the screen
  le,         \* the line being edited
  at,         \* where shell_task is: before the prompt, polling, executing
  seen,       \* history: the words on the screen when Enter was pressed
  last,       \* history: the last command's words, and what it put out
  sector,     \* history: what the last command asked of a disk
  keys

promptVars == <<screen, le, at, seen, last, sector, keys>>

EmptyBuf == [k \in Places |-> NUL]
(* mistake: the length alone is reset. *)
LineResetLen(l) == [l EXCEPT !.len = 0]

LineReset(l) == [l EXCEPT !.buf = EmptyBuf, !.len = 0]

Echoed(v, s) ==
  LET after[n \in 0 .. Len(s)] == IF n = 0 THEN v ELSE VgaPutc(after[n - 1], s[n])
  IN  after[Len(s)]

(* mistake: the cursor steps back over the character, which stays. *)
EraseEchoBack == <<BS>>

(* lineedit_putc: what the line and the echo are after a key. *)
EraseEcho == <<BS, Space, BS>>

Erase(l) ==
  IF l.len = 0 THEN [line |-> l, echo |-> <<>>]
  ELSE [line |-> [buf |-> [l.buf EXCEPT ![l.len - 1] = NUL], len |-> l.len - 1], echo |-> EraseEcho]

Type(l, c) ==
  IF l.len + 1 < LINE_MAX
    THEN [line |-> [buf |-> [l.buf EXCEPT ![l.len] = c, ![l.len + 1] = NUL], len |-> l.len + 1],
          echo |-> <<c>>]
    ELSE [line |-> l, echo |-> <<>>]

LineeditPutc(l, c) ==
  CASE c = BS -> Erase(l)
    [] c \in Shown -> Type(l, c)
    [] c = NL -> [line |-> l, echo |-> <<NL>>]
    [] OTHER -> [line |-> l, echo |-> <<>>]

-----------------------------------------------------------------------------
(* The screen, from n places before the cursor to the cursor. *)
Behind(n) == [k \in 1 .. n |-> screen.cells[screen.cursor - n + k - 1]]

ShowPrompt ==
  /\ at = "prompt"
  /\ screen' = Echoed(screen, Prompt) /\ at' = "key"
  /\ UNCHANGED <<le, seen, last, sector, keys>>

Key(c) ==
  /\ at = "key" /\ keys < MaxKeys
  /\ LET r == LineeditPutc(le, c)
     IN  le' = r.line /\ screen' = Echoed(screen, r.echo)
  /\ at' = IF c = NL THEN "exec" ELSE "key"
  /\ seen' = IF c = NL THEN Behind(le.len) ELSE seen
  /\ keys' = keys + 1
  /\ UNCHANGED <<last, sector>>

NoSector == [op |-> "none"]

(* shell_exec.  A command not in the table is named in the answer, whose     *)
(* wording is left out; of the table, those that give the words back.        *)
Leaves(argv, out, asked) ==
  /\ last' = [argv |-> argv, out |-> out] /\ sector' = asked
  /\ le' = LineReset(le) /\ at' = "prompt"
  /\ UNCHANGED <<seen, keys>>
Done(argv, out) == Leaves(argv, out, NoSector)

EmptyLine(argv) ==
  /\ argv = <<>>
  /\ Done(<<>>, <<>>) /\ UNCHANGED screen

ShellEchoCmd(argv) ==
  /\ argv # <<>> /\ argv[1] = EchoName
  /\ LET out == Joined(Tail(argv)) \o <<NL>>
     IN  Done(argv, out) /\ screen' = Echoed(screen, out)

ShellClear(argv) ==
  /\ argv # <<>> /\ argv[1] = ClearName
  /\ Done(argv, <<>>) /\ screen' = [cells |-> Cleared, cursor |-> 0]

(* The text shell_write hands to vfs_write: cut at the buffer, then a newline. *)
WriteText(words) ==
  LET t == Joined(words) cut == SubSeq(t, 1, Min({Len(t), LINE_MAX - 1}))
  IN  cut \o <<NL>>

ShellWrite(argv) ==
  /\ argv # <<>> /\ argv[1] = WriteName
  /\ IF Len(argv) < 3
       THEN Done(argv, <<>>) /\ screen' = Echoed(screen, WriteName \o <<NL>>)
       ELSE Done(argv, WriteText(Tail(Tail(argv)))) /\ screen' = Echoed(screen, WriteName \o <<NL>>)

(* The disk rdsect and wrsect work on, and where their arguments begin: a    *)
(* first argument that is not a number is the name of a disk.                *)
DiskOf(name) == IF name \in DiskNames THEN name ELSE <<>>

(* mistake: a name that no disk has falls back on the default one. *)
DiscoDaArgvLenient(argv) ==
  IF Len(argv) > 1 /\ ~ParseDec(argv[2]).ok
    THEN [b |-> IF argv[2] \in DiskNames THEN argv[2] ELSE DefaultDisk, primo |-> 2]
  ELSE [b |-> DiskOf(DefaultDisk), primo |-> 1]

DiscoDaArgv(argv) ==
  IF Len(argv) > 1 /\ ~ParseDec(argv[2]).ok THEN [b |-> DiskOf(argv[2]), primo |-> 2]
  ELSE [b |-> DiskOf(DefaultDisk), primo |-> 1]

(* What rdsect asks of the disk, or nothing; the answer only changes what is *)
(* printed.                                                                  *)
RdsectAsks(argv) ==
  LET d == DiscoDaArgv(argv) argc == Len(argv)
      lba == ParseDec(argv[d.primo + 1])
      n == IF argc = d.primo + 2 THEN ParseDec(argv[d.primo + 2])
           ELSE [ok |-> TRUE, val |-> SECTOR_SIZE]
  IN  IF argc < d.primo + 1 \/ argc > d.primo + 2 \/ d.b = <<>> \/ ~lba.ok \/ ~n.ok THEN NoSector
      ELSE [op |-> "read", b |-> d.b, lba |-> lba.val, n |-> Min({n.val, SECTOR_SIZE})]

WrsectAsks(argv) ==
  LET d == DiscoDaArgv(argv) argc == Len(argv)
      lba == ParseDec(argv[d.primo + 1])
      hex == Lowered(argv[d.primo + 2])
      good == hex # <<>> /\ Len(hex) <= 2 * SECTOR_SIZE /\ IsPattern(hex)
  IN  IF argc # d.primo + 2 \/ d.b = <<>> \/ ~lba.ok \/ ~good THEN NoSector
      ELSE [op |-> "write", b |-> d.b, lba |-> lba.val,
            data |-> [i \in 0 .. SECTOR_SIZE - 1 |-> ByteAt(hex, (i % (Len(hex) \div 2)) + 1)]]

ShellSector(argv) ==
  /\ argv # <<>> /\ argv[1] \in {RdsectName, WrsectName}
  /\ Leaves(argv, <<>>, IF argv[1] = RdsectName THEN RdsectAsks(argv) ELSE WrsectAsks(argv))
  /\ screen' = Echoed(screen, argv[1] \o <<NL>>)

NotFound(argv) ==
  /\ argv # <<>> /\ argv[1] \notin {EchoName, ClearName, WriteName, RdsectName, WrsectName}
  /\ Done(argv, argv[1] \o <<NL>>) /\ screen' = Echoed(screen, argv[1] \o <<NL>>)

(* After the boot and the first prompt; some of a line may have been typed.  *)
PInit ==
  /\ \E r \in Rows0, s \in Typed0 :
       /\ screen = Echoed([cells |-> Cleared, cursor |-> r * COLS], Prompt \o s)
       /\ le = [buf |-> [k \in Places |-> IF k < Len(s) THEN s[k + 1] ELSE NUL], len |-> Len(s)]
  /\ at = "key"
  /\ seen = <<>> /\ last = [argv |-> <<>>, out |-> <<>>] /\ sector = NoSector /\ keys = 0

Exec ==
  /\ at = "exec"
  /\ LET argv == Args(le.buf)
     IN  EmptyLine(argv) \/ ShellEchoCmd(argv) \/ ShellClear(argv) \/ ShellWrite(argv)
         \/ ShellSector(argv) \/ NotFound(argv)

PNext == ShowPrompt \/ (\E c \in Chars : Key(c)) \/ Exec

PSpec == PInit /\ [][PNext]_promptVars

-----------------------------------------------------------------------------
Line == StringAt(le.buf, 0)

(* What is before the cursor is the prompt and the line, as the editor has   *)
(* them, and nothing is left after it: through the end of a row, a scroll,   *)
(* backspaces over either, a full line and keys that are not characters.     *)
SeenIsLine ==
  at = "key" =>
    /\ Len(Line) = le.len
    /\ Behind(Len(Prompt) + le.len) = Prompt \o Line
    /\ \A k \in Cells : k >= screen.cursor => screen.cells[k] = Space

(* The words of a text, said without a loop: the longest runs of characters  *)
(* other than spaces, from the left.                                         *)
Words(s) ==
  LET begins == {i \in DOMAIN s : s[i] # Space /\ (i = 1 \/ s[i - 1] = Space)}
      ends(i) == Max({j \in i .. Len(s) : \A k \in i .. j : s[k] # Space})
      nth(k) == CHOOSE i \in begins : Cardinality({j \in begins : j <= i}) = k
  IN  [k \in 1 .. Cardinality(begins) |-> SubSeq(s, nth(k), ends(nth(k)))]

(* A command is run with the words that stood on the screen when Enter was   *)
(* pressed, up to SHELL_MAX_ARGS of them, and with nothing of earlier lines; *)
(* echo and write put out those words and no others.                         *)
ExecutesWhatIsSeen ==
  (at = "prompt" /\ keys > 0) =>
    LET w == Words(seen)
        argv == SubSeq(w, 1, Min({Len(w), SHELL_MAX_ARGS}))
    IN  /\ last.argv = argv
        /\ (argv # <<>> /\ argv[1] = EchoName) => Words(SubSeq(last.out, 1, Len(last.out) - 1)) = Tail(argv)
        /\ (Len(argv) > 2 /\ argv[1] = WriteName)
             => Words(SubSeq(last.out, 1, Len(last.out) - 1)) = Tail(Tail(argv))

(* The value of a string of digits, each worth its place from the right. *)
Value(digits, s) ==
  LET worth[n \in 0 .. Len(s)] == IF n = 0 THEN 1 ELSE worth[n - 1] * Len(digits)
      sum[n \in 0 .. Len(s)] ==
        IF n = 0 THEN 0 ELSE sum[n - 1] + Digit(digits, s[n]) * worth[Len(s) - n]
  IN  sum[Len(s)]
Reads(digits, s) == s # <<>> /\ \A i \in DOMAIN s : Contains(digits, s[i])

(* A sector is read or written only on the disk whose name is on the line,   *)
(* or on the default one when the line has no name; at the number on the     *)
(* line; and a sector written is the pattern over and over.  A line that can *)
(* be read in another way asks nothing of any disk.                          *)
SectorAsTyped ==
  (at = "prompt" /\ sector.op # "none") =>
    LET w == SubSeq(Words(seen), 1, Min({Len(Words(seen)), SHELL_MAX_ARGS}))
        named == w[2] \in DiskNames
        args == IF named THEN SubSeq(w, 3, Len(w)) ELSE Tail(w)
        pattern == Lowered(args[2])
    IN  /\ w[1] = (IF sector.op = "read" THEN RdsectName ELSE WrsectName)
        /\ sector.b = (IF named THEN w[2] ELSE DefaultDisk)
        /\ Reads(DecDigits, args[1]) /\ sector.lba = Value(DecDigits, args[1])
        /\ sector.op = "write" =>
             /\ Len(args) = 2 /\ Reads(HexDigits, pattern)
             /\ \A i \in 0 .. SECTOR_SIZE - 1 :
                  \E k \in 1 .. Len(pattern) \div 2 :
                    /\ i % (Len(pattern) \div 2) = k - 1
                    /\ sector.data[i] = Value(HexDigits, SubSeq(pattern, 2 * k - 1, 2 * k))
        /\ sector.op = "read" => sector.n <= SECTOR_SIZE

(* A number that is accepted has its exact value; one that would not fit, or *)
(* with a character that is not a digit, is refused and never wraps.  The    *)
(* hexadecimal reader takes capitals for small letters, and also refuses a   *)
(* number longer than a word, zeros ahead of it included.                    *)
ParsesExactly ==
  \A k \in DOMAIN Words(Line) :
    LET s == Words(Line)[k]
        low == Lowered(s)
        h == IF IsPrefix(HexPrefix, low) THEN SubSeq(low, Len(HexPrefix) + 1, Len(low)) ELSE low
        d == ParseDec(s)
        x == ParseHex(s)
    IN  /\ d.ok <=> (Reads(DecDigits, s) /\ Value(DecDigits, s) <= WordMax)
        /\ d.ok => d.val = Value(DecDigits, s)
        /\ x.ok <=> (Reads(HexDigits, h) /\ Len(h) <= MaxHexDigits)
        /\ x.ok => x.val = Value(HexDigits, h)

=============================================================================
