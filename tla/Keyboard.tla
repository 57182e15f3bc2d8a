------------------------------ MODULE Keyboard ------------------------------
(***************************************************************************)
(* kernel/keyboard.c on top of Ring: the IRQ 1 handler decodes one byte of *)
(* the controller per interrupt and pushes at most one character; the one  *)
(* consumer is the shell task, which either polls keyboard_getchar or is   *)
(* inside a read of /dev/kbd.  The handler runs behind an interrupt gate,  *)
(* so it is one step; keyboard_getchar runs with interrupts on, so the     *)
(* handler may fall between any two accesses of ring_pop.                  *)
(***************************************************************************)
EXTENDS Naturals, Sequences, FiniteSets

CONSTANTS Scancodes,       (* the bytes the controller may deliver         *)
          NormalTable,     (* scancode_to_ascii_normal, on the make codes  *)
          ShiftTable,      (* scancode_to_ascii_shift                      *)
          Size,            (* RING_SIZE                                    *)
          ReadSizes,       (* the n a reader of /dev/kbd may ask for       *)
          Nothing,         (* -1                                           *)
          MaxBytes         (* bound: bytes the controller delivers in all  *)

BreakBit == 128
LShift   == 42
RShift   == 54
Extended == 224

Chars == 0 .. 127

ASSUME TableAssumption ==
  /\ Scancodes \subseteq 0 .. 255
  /\ \A s \in Scancodes : s < BreakBit => /\ NormalTable[s] \in Chars
                                          /\ ShiftTable[s] \in Chars

(* RING_SIZE is 128, and -1 is no character. *)
ASSUME KeyboardAssumption ==
  /\ Size \in Nat /\ Size >= 2 /\ Nothing \notin Chars
  /\ ReadSizes \subseteq Nat /\ MaxBytes \in Nat

VARIABLES buf, head, tail, pushPc, pushVal, popPc, popVal, pushOk, popResult,
          skip_next, shift_pressed,  (* the statics of the handler         *)
          want, got,                 (* n and i of kbd_dev_read; want = 0  *)
                                     (* when the shell polls on its own    *)
          sent,                      (* history: every byte delivered      *)
          accepted,                  (* history: every character queued    *)
          refused,                   (* history: how many found it full    *)
          delivered                  (* history: every character returned  *)

R == INSTANCE Ring WITH Values <- Chars

ringVars     == <<buf, head, tail, pushPc, pushVal, popPc, popVal, pushOk, popResult>>
decoderVars  == <<skip_next, shift_pressed>>
readerVars   == <<want, got>>
inputHistory == <<accepted, refused>>
vars == <<ringVars, decoderVars, readerVars, sent, inputHistory, delivered>>

TableFor(shift) == IF shift THEN ShiftTable ELSE NormalTable

(* scancode_to_char: -1 for a release and for what the table leaves at 0 *)
ScancodeToChar(s, shift) ==
  IF s >= BreakBit \/ TableFor(shift)[s] = 0 THEN Nothing ELSE TableFor(shift)[s]

(* keyboard_init; the static ring starts zeroed *)
Init ==
  /\ buf = [s \in R!Slots |-> 0] /\ head = 0 /\ tail = 0
  /\ pushPc = "idle" /\ pushVal = Nothing /\ pushOk = TRUE
  /\ popPc = "idle" /\ popVal = Nothing /\ popResult = Nothing
  /\ skip_next = FALSE /\ shift_pressed = FALSE
  /\ want = 0 /\ got = 0
  /\ sent = <<>> /\ accepted = <<>> /\ refused = 0 /\ delivered = <<>>

-----------------------------------------------------------------------------
(* the interrupt: a whole ring_push, no consumer step can fall inside it *)

(* mistakes: overwriting a full ring; refusing one place too early *)
PushOverwriting(c) ==
  /\ buf' = [buf EXCEPT ![head] = c]
  /\ head' = R!NextSlot(head)
  /\ pushOk' = TRUE
  /\ accepted' = Append(accepted, c)
  /\ UNCHANGED <<tail, pushPc, pushVal, popPc, popVal, popResult, refused>>

PushShy(c) ==
  /\ \/ /\ R!Full \/ R!NextSlot(R!NextSlot(head)) = tail
        /\ pushOk' = FALSE
        /\ refused' = refused + 1
        /\ UNCHANGED <<buf, head, accepted>>
     \/ /\ ~R!Full /\ R!NextSlot(R!NextSlot(head)) # tail
        /\ buf' = [buf EXCEPT ![head] = c]
        /\ head' = R!NextSlot(head)
        /\ pushOk' = TRUE
        /\ accepted' = Append(accepted, c)
        /\ UNCHANGED refused
  /\ UNCHANGED <<tail, pushPc, pushVal, popPc, popVal, popResult>>

PushWhole(c) ==
  /\ \/ /\ R!Full
        /\ pushOk' = FALSE
        /\ refused' = refused + 1
        /\ UNCHANGED <<buf, head, accepted>>
     \/ /\ ~R!Full
        /\ buf' = [buf EXCEPT ![head] = c]
        /\ head' = R!NextSlot(head)
        /\ pushOk' = TRUE
        /\ accepted' = Append(accepted, c)
        /\ UNCHANGED refused
  /\ UNCHANGED <<tail, pushPc, pushVal, popPc, popVal, popResult>>

SkipByte ==
  /\ skip_next
  /\ skip_next' = FALSE
  /\ UNCHANGED <<shift_pressed, ringVars, inputHistory>>

ExtendedPrefix(b) ==
  /\ ~skip_next /\ b = Extended
  /\ skip_next' = TRUE
  /\ UNCHANGED <<shift_pressed, ringVars, inputHistory>>

ShiftMake(b) ==
  /\ ~skip_next /\ b \in {LShift, RShift}
  /\ shift_pressed' = TRUE
  /\ UNCHANGED <<skip_next, ringVars, inputHistory>>

(* mistake: shift is forgotten at a key that types, and its release is not one *)
OrdinaryByteUnreleased(b) ==
  /\ ~skip_next /\ b \notin {Extended, LShift, RShift}
  /\ LET c == ScancodeToChar(b, shift_pressed)
     IN  IF c # Nothing
         THEN PushWhole(c) /\ shift_pressed' = FALSE
         ELSE UNCHANGED <<ringVars, inputHistory, shift_pressed>>
  /\ UNCHANGED skip_next

OrdinaryByte(b) ==
  /\ ~skip_next /\ b \notin {Extended, LShift, RShift}
  /\ LET c == ScancodeToChar(b, shift_pressed)
     IN  \/ /\ c # Nothing
            /\ PushWhole(c)
         \/ /\ c = Nothing
            /\ UNCHANGED <<ringVars, inputHistory>>
  /\ shift_pressed' = FALSE
  /\ UNCHANGED skip_next

KeyboardHandler(b) ==
  /\ Len(sent) < MaxBytes
  /\ sent' = Append(sent, b)
  /\ SkipByte \/ ExtendedPrefix(b) \/ ShiftMake(b) \/ OrdinaryByte(b)
  /\ UNCHANGED <<readerVars, delivered>>

-----------------------------------------------------------------------------
(* the consumer *)

(* entering kbd_dev_read; with n = 0 it returns at once *)
DevReadEnter(n) ==
  /\ popPc = "idle" /\ want = 0
  /\ want' = n
  /\ UNCHANGED <<ringVars, decoderVars, got, sent, inputHistory, delivered>>

(* mistake: a device read waits for the keys it was asked for *)
GetcharCheckBlocking ==
  /\ R!PopCheck
  /\ UNCHANGED <<readerVars, decoderVars, sent, inputHistory, delivered>>

(* keyboard_getchar looks at the ring; an empty one ends a device read, *)
(* while the shell just polls again                                     *)
GetcharCheck ==
  /\ R!PopCheck
  /\ \/ /\ popPc' = "idle"
        /\ want' = 0 /\ got' = 0
     \/ /\ popPc' = "load"
        /\ UNCHANGED readerVars
  /\ UNCHANGED <<decoderVars, sent, inputHistory, delivered>>

GetcharLoad ==
  /\ R!PopLoad
  /\ UNCHANGED <<decoderVars, readerVars, sent, inputHistory, delivered>>

(* mistakes: a device read that goes past its n; one that takes a character *)
(* out of the ring before noticing that it has its n                       *)
GetcharReleaseOverrun ==
  /\ R!PopRelease
  /\ delivered' = Append(delivered, popVal)
  /\ got' = IF want > 0 THEN got + 1 ELSE got
  /\ UNCHANGED <<want, decoderVars, sent, inputHistory>>

GetcharReleaseDropping ==
  /\ R!PopRelease
  /\ IF want > 0 /\ got + 1 = want
     THEN want' = 0 /\ got' = 0 /\ UNCHANGED delivered
     ELSE /\ delivered' = Append(delivered, popVal)
          /\ got' = IF want > 0 THEN got + 1 ELSE got
          /\ UNCHANGED want
  /\ UNCHANGED <<decoderVars, sent, inputHistory>>

(* the character is out; a device read that has its n bytes returns *)
GetcharRelease ==
  /\ R!PopRelease
  /\ delivered' = Append(delivered, popVal)
  /\ \/ /\ want = 0
        /\ UNCHANGED readerVars
     \/ /\ want > 0 /\ got + 1 = want
        /\ want' = 0 /\ got' = 0
     \/ /\ want > 0 /\ got + 1 # want
        /\ got' = got + 1
        /\ UNCHANGED want
  /\ UNCHANGED <<decoderVars, sent, inputHistory>>

Reader == GetcharCheck \/ GetcharLoad \/ GetcharRelease

Next ==
  \/ \E b \in Scancodes : KeyboardHandler(b)
  \/ \E n \in ReadSizes : DevReadEnter(n)
  \/ Reader

Spec == Init /\ [][Next]_vars

(* the scheduler gives the shell task its turn again and again (module *)
(* Scheduler), so its polling loop never stops; keys need never come   *)
FairSpec == Spec /\ WF_vars(Reader)

-----------------------------------------------------------------------------
(* What the byte stream means, told without the handler's flags. *)

(* the n bytes before byte i are prefixes, and no more than those *)
PrefixRun(s, i, n) ==
  /\ \A k \in i - n .. i - 1 : s[k] = Extended
  /\ i - n > 1 => s[i - n - 1] # Extended

(* prefixes pair up with what follows them, a second prefix included *)
Swallowed(s, i) == \E n \in 0 .. i - 1 : n % 2 = 1 /\ PrefixRun(s, i, n)

Significant(s, i) == ~Swallowed(s, i) /\ s[i] # Extended

(* a shift was pressed and not released since, whatever else was typed *)
ShiftHeld(s, i) ==
  \E j \in 1 .. i - 1 :
    /\ Significant(s, j) /\ s[j] \in {LShift, RShift}
    /\ \A k \in j + 1 .. i - 1 : ~(Significant(s, k) /\ s[k] = s[j] + BreakBit)

(* the byte before i that counts is a press of shift *)
AfterShift(s, i) ==
  \E j \in 1 .. i - 1 :
    /\ Significant(s, j) /\ s[j] \in {LShift, RShift}
    /\ \A k \in j + 1 .. i - 1 : ~Significant(s, k)

(* the bytes that come under a held shift; those for which it has been held *)
(* over from an earlier byte than the one before                            *)
Held(s)     == {i \in DOMAIN s : ShiftHeld(s, i)}
HeldOver(s) == {i \in Held(s) : ~AfterShift(s, i)}

CharAt(s, i, shift) ==
  IF Significant(s, i) /\ s[i] \notin {LShift, RShift}
  THEN ScancodeToChar(s[i], shift) ELSE Nothing

(* the bytes of s that type a character, those in shifted with shift *)
Typing(s, shifted) == {i \in DOMAIN s : CharAt(s, i, i \in shifted) # Nothing}

(* q is the characters s stands for, in their order and without the lost ones *)
Spells(q, s, shifted, lost) ==
  LET kept == Typing(s, shifted) \ lost
  IN  /\ lost \subseteq Typing(s, shifted)
      /\ Len(q) = Cardinality(kept)
      /\ \A i \in kept :
           q[Cardinality({j \in kept : j <= i})] = CharAt(s, i, i \in shifted)

-----------------------------------------------------------------------------

TypeOK ==
  /\ R!TypeOK
  /\ pushPc = "idle"
  /\ skip_next \in BOOLEAN /\ shift_pressed \in BOOLEAN
  /\ want \in ReadSizes \cup {0}
  /\ got \in 0 .. want /\ (want > 0 => got < want)
  /\ sent \in Seq(Scancodes) /\ Len(sent) <= MaxBytes
  /\ accepted \in Seq(Chars) /\ refused \in 0 .. MaxBytes /\ delivered \in Seq(Chars)

(* Every character accepted is delivered once and in order, or still in    *)
(* the ring: neither an interrupt inside keyboard_getchar nor a device     *)
(* read that stops at its n bytes or at an empty ring loses one.           *)
NoAcceptedKeyLost == delivered \o R!Contents = accepted

(* What was queued is what the bytes mean, however prefixes, releases and *)
(* shifts are mixed: no half of an extended key is ever taken for a        *)
(* character, a key is shifted only while shift is held and always when it *)
(* is the first under it, and a key refused by a full ring costs its own   *)
(* character and leaves the decoder right for the next.  The later keys    *)
(* under one held shift may be read either way: HeldShiftApplies.          *)
DecodesStream ==
  \E plain \in SUBSET HeldOver(sent), lost \in SUBSET DOMAIN sent :
    /\ Cardinality(lost) = refused
    /\ Spells(accepted, sent, Held(sent) \ plain, lost)

(* Every key typed while shift is held is shifted: m5's plan has the state *)
(* of shift change on a make or break code of shift, and on nothing else.  *)
HeldShiftApplies == refused = 0 => Spells(accepted, sent, Held(sent), {})

(* What is queued is read, though nothing wakes the reader up.             *)
EveryKeyDelivered ==
  \A n \in 1 .. MaxBytes : Len(accepted) >= n ~> Len(delivered) >= n

(* A read of /dev/kbd returns: it never waits for keys that do not come.   *)
DevReadReturns == want > 0 ~> want = 0

(* Every step keeps the keys: those accepted until they are read, and a key  *)
(* is refused only when the consumer is Size - 1 characters behind           *)
(* (keyboard.c:104-106, 174-179).                                            *)
KeysKept ==
  [][/\ TypeOK' /\ NoAcceptedKeyLost'
     /\ refused' # refused => Len(accepted) - Len(delivered) = Size - 1]_vars

(* The reader gets every key and never waits for one that is not there,    *)
(* with nothing to wake it up.                                             *)
ReaderServed == EveryKeyDelivered /\ DevReadReturns

=============================================================================
