--------------------------- MODULE KeyboardProofs ---------------------------
(***************************************************************************)
(* For every table of characters, every size of the ring and every length  *)
(* of a read: whatever the controller delivers and wherever its interrupt  *)
(* falls, no key that was accepted is lost, none is refused that fits, and *)
(* what is queued is what the bytes mean.                                  *)
(***************************************************************************)
EXTENDS Keyboard, SequenceTheorems, FiniteSetTheorems, TLAPS

(* What is proved about the ring holds of the keyboard's.                    *)
RP == INSTANCE RingProofs WITH Values <- Chars

(* Between two steps no push is under way, the consumer's check still holds, *)
(* and the characters accepted and refused came with bytes of their own.     *)
KInv == TypeOK /\ RP!IInv /\ NoAcceptedKeyLost /\ refused <= Len(sent)

-----------------------------------------------------------------------------

LEMMA SameRing ==
  /\ R!Slots = RP!Slots /\ \A i : R!NextSlot(i) = RP!NextSlot(i)
  /\ R!Full <=> RP!Full
  /\ R!TypeOK <=> RP!TypeOK
  /\ R!Contents = RP!Contents
<1>1. R!Slots = RP!Slots /\ \A i : R!NextSlot(i) = RP!NextSlot(i)
  BY DEF R!Slots, RP!Slots, R!NextSlot, RP!NextSlot
<1>2. R!Full <=> RP!Full
  BY <1>1 DEF R!Full, RP!Full
<1>3. R!TypeOK <=> RP!TypeOK
  BY <1>1 DEF R!TypeOK, RP!TypeOK
<1>4. R!Contents = RP!Contents
  BY DEF R!Contents, RP!Contents, R!Count, RP!Count, R!SlotAt, RP!SlotAt
<1> QED
  BY <1>1, <1>2, <1>3, <1>4

(* The steps of the consumer are those of ring_pop.                          *)
LEMMA SamePop ==
  /\ R!PopCheck <=> RP!PopCheck
  /\ R!PopLoad <=> RP!PopLoad
  /\ R!PopRelease <=> RP!PopRelease
<1>1. R!Empty <=> RP!Empty
  BY DEF R!Empty, RP!Empty
<1>2. R!PopCheck <=> RP!PopCheck
  BY <1>1 DEF R!PopCheck, RP!PopCheck, R!ringVars, RP!ringVars, R!producerVars, RP!producerVars
<1>3. R!PopLoad <=> RP!PopLoad
  BY DEF R!PopLoad, RP!PopLoad, R!ringVars, RP!ringVars, R!producerVars, RP!producerVars
<1>4. R!PopRelease <=> RP!PopRelease
  BY SameRing DEF R!PopRelease, RP!PopRelease, R!producerVars, RP!producerVars
<1> QED
  BY <1>2, <1>3, <1>4

(* The ring as its own module proves it. *)
LEMMA RingFacts ==
  ASSUME RP!IInv
  PROVE  /\ head \in RP!Slots /\ tail \in RP!Slots /\ RP!TypeOK
         /\ RP!Contents \in Seq(Chars) /\ Len(RP!Contents) = RP!Count
         /\ RP!Count \in 0 .. Size - 1
         /\ RP!Count = Size - 1 <=> RP!Full
         /\ RP!NextSlot(head) = IF head = Size - 1 THEN 0 ELSE head + 1
         /\ RP!NextSlot(head) \in RP!Slots
<1>1. RP!TypeOK /\ head \in RP!Slots /\ tail \in RP!Slots
  BY DEF RP!IInv, RP!TypeOK
<1>2. /\ RP!Contents \in Seq(Chars) /\ Len(RP!Contents) = RP!Count /\ RP!Count \in 0 .. Size - 1
  BY <1>1, RP!ContentsType, KeyboardAssumption
<1>3. RP!Count = Size - 1 <=> RP!Full
  BY <1>1, RP!CountFacts, KeyboardAssumption
<1>4. /\ RP!NextSlot(head) = IF head = Size - 1 THEN 0 ELSE head + 1
      /\ RP!NextSlot(head) \in RP!Slots
  BY <1>1, RP!NextSlotValue, KeyboardAssumption
<1> QED
  BY <1>1, <1>2, <1>3, <1>4

(* The interrupt pushes in one step: the character goes to the end.          *)
LEMMA PushAppends ==
  ASSUME RP!IInv, NEW c \in Chars, PushWhole(c), ~RP!Full, pushPc = "idle"
  PROVE  RP!IInv' /\ RP!Contents' = Append(RP!Contents, c) /\ accepted' = Append(accepted, c)
<1>1. /\ buf' = [buf EXCEPT ![head] = c] /\ head' = RP!NextSlot(head) /\ pushOk' = TRUE
      /\ accepted' = Append(accepted, c)
      /\ UNCHANGED <<tail, pushPc, pushVal, popPc, popVal, popResult>>
  BY SameRing DEF PushWhole
<1>2. /\ head \in RP!Slots /\ tail \in RP!Slots /\ RP!TypeOK
      /\ RP!Contents \in Seq(Chars) /\ Len(RP!Contents) = RP!Count
      /\ RP!Count \in 0 .. Size - 1 /\ RP!Count # Size - 1
      /\ RP!NextSlot(head) = IF head = Size - 1 THEN 0 ELSE head + 1
      /\ RP!NextSlot(head) \in RP!Slots /\ Size \in Nat /\ Size >= 2
  BY RingFacts, KeyboardAssumption
<1>3. RP!NextSlot(head) # tail
  BY DEF RP!Full
<1>4. /\ \A k \in 0 .. Size - 1 : RP!SlotAt(k) \in RP!Slots
      /\ RP!SlotAt(RP!Count) = head
      /\ \A k \in 0 .. RP!Count - 1 : RP!SlotAt(k) # head
  BY <1>2, RP!CountFacts, KeyboardAssumption
<1>5. RP!IInv'
  <2>1. buf' \in [RP!Slots -> Chars] /\ head' \in RP!Slots /\ tail' \in RP!Slots
    BY <1>1, <1>2 DEF RP!TypeOK
  <2>2. RP!TypeOK'
    BY <1>1, <1>2, <2>1 DEF RP!TypeOK
  <2>3. RP!CheckStillTrue'
    BY <1>1, <1>3 DEF RP!CheckStillTrue, RP!Empty
  <2>4. popPc = "release" => tail # head
    BY DEF RP!IInv, RP!CheckStillTrue, RP!Empty
  <2>5. RP!InHand'
    BY <1>1, <1>2, <2>4 DEF RP!IInv, RP!InHand, RP!TypeOK
  <2> QED
    BY <2>2, <2>3, <2>5 DEF RP!IInv
<1>6. RP!Count' = RP!Count + 1
  BY <1>1, <1>2, <1>3 DEF RP!Count, RP!Slots
<1>7. \A k : RP!SlotAt(k)' = RP!SlotAt(k)
  BY <1>1 DEF RP!SlotAt
<1>8. RP!Contents' = [k \in 1 .. RP!Count + 1 |-> buf'[RP!SlotAt(k - 1)]]
  BY <1>6, <1>7 DEF RP!Contents
<1>9. ASSUME NEW k \in 1 .. RP!Count + 1
      PROVE  buf'[RP!SlotAt(k - 1)] = IF k = RP!Count + 1 THEN c ELSE RP!Contents[k]
  <2>1. CASE k = RP!Count + 1
    <3>1. RP!SlotAt(k - 1) = head
      BY <1>2, <1>4, <2>1
    <3> QED
      BY <1>1, <1>2, <2>1, <3>1 DEF RP!TypeOK
  <2>2. CASE k # RP!Count + 1
    <3>1. k \in 1 .. RP!Count /\ k - 1 \in 0 .. RP!Count - 1 /\ k - 1 \in 0 .. Size - 1
      BY <1>2, <2>2
    <3>2. RP!SlotAt(k - 1) \in RP!Slots /\ RP!SlotAt(k - 1) # head
      BY <1>4, <3>1
    <3>3. RP!Contents[k] = buf[RP!SlotAt(k - 1)]
      BY <3>1 DEF RP!Contents
    <3> QED
      BY <1>1, <1>2, <2>2, <3>2, <3>3 DEF RP!TypeOK
  <2> QED
    BY <2>1, <2>2
<1>10. Append(RP!Contents, c) =
         [k \in 1 .. RP!Count + 1 |-> IF k = RP!Count + 1 THEN c ELSE RP!Contents[k]]
  <2> DEFINE q == RP!Contents
             n == RP!Count
  <2>1. q \in Seq(Chars) /\ Len(q) = n /\ n \in Nat
    BY <1>2
  <2> HIDE DEF q, n
  <2> DEFINE t == Append(q, c)
  <2>2. /\ t \in Seq(Chars) /\ Len(t) = n + 1 /\ t[n + 1] = c
        /\ \A k \in 1 .. n : t[k] = q[k]
    BY <2>1, AppendProperties
  <2> HIDE DEF t
  <2>3. t = [k \in 1 .. n + 1 |-> t[k]]
    BY <2>2, LenProperties
  <2>4. \A k \in 1 .. n + 1 : t[k] = IF k = n + 1 THEN c ELSE q[k]
    BY <2>1, <2>2
  <2>5. t = [k \in 1 .. n + 1 |-> IF k = n + 1 THEN c ELSE q[k]]
    BY <2>3, <2>4
  <2> QED
    BY <2>5 DEF q, n, t
<1>11. RP!Contents' =
         [k \in 1 .. RP!Count + 1 |-> IF k = RP!Count + 1 THEN c ELSE RP!Contents[k]]
  BY <1>8, <1>9, Zenon
<1> QED
  BY <1>1, <1>5, <1>10, <1>11

LEMMA InitKeys == Init => KInv
<1> SUFFICES ASSUME Init
             PROVE  KInv
  OBVIOUS
<1>1. 0 \in RP!Slots /\ 0 \in Chars
  BY KeyboardAssumption DEF RP!Slots, Chars
<1>2. RP!Init
  BY <1>1, SameRing DEF Init, RP!Init, RP!RingInit
<1>3. RP!IInv
  BY <1>2, RP!InitIInv, KeyboardAssumption
<1>4. RP!TypeOK /\ R!TypeOK
  BY <1>3, SameRing DEF RP!IInv
<1>5. TypeOK
  <2>1. <<>> \in Seq(Scancodes) /\ <<>> \in Seq(Chars) /\ Len(<<>>) = 0
    BY EmptySeq
  <2>2. /\ sent = <<>> /\ accepted = <<>> /\ delivered = <<>> /\ refused = 0 /\ want = 0
        /\ got = 0 /\ skip_next = FALSE /\ shift_pressed = FALSE /\ pushPc = "idle"
    BY DEF Init
  <2>3. want \in ReadSizes \union {0} /\ got \in 0 .. want /\ ~(want > 0)
        /\ refused \in 0 .. MaxBytes /\ Len(sent) <= MaxBytes
    BY <2>1, <2>2, KeyboardAssumption
  <2> QED
    BY <1>4, <2>1, <2>2, <2>3 DEF TypeOK
<1>6. RP!Count = 0 /\ RP!Contents = <<>> /\ R!Contents = <<>>
  BY KeyboardAssumption, SameRing DEF Init, RP!Count, RP!Contents
<1>7. NoAcceptedKeyLost
  BY <1>6 DEF Init, NoAcceptedKeyLost
<1> QED
  BY <1>3, <1>5, <1>7 DEF Init, KInv

LEMMA KeptFacts ==
  ASSUME KInv
  PROVE  /\ TypeOK /\ RP!IInv /\ delivered \o RP!Contents = accepted
         /\ pushPc = "idle" /\ want \in ReadSizes \union {0} /\ got \in 0 .. want
         /\ (want > 0 => got < want) /\ want \in Nat /\ got \in Nat
         /\ skip_next \in BOOLEAN /\ shift_pressed \in BOOLEAN
         /\ sent \in Seq(Scancodes) /\ Len(sent) \in Nat /\ MaxBytes \in Nat
         /\ Len(sent) <= MaxBytes /\ accepted \in Seq(Chars) /\ delivered \in Seq(Chars)
         /\ refused \in Nat /\ refused <= Len(sent)
         /\ RP!Contents \in Seq(Chars)
  BY SameRing, RingFacts, KeyboardAssumption DEF KInv, TypeOK, NoAcceptedKeyLost

(* The ring is where it was, whatever the consumer looks at.                 *)
LEMMA RingKept ==
  ASSUME UNCHANGED <<buf, head, tail>>
  PROVE  RP!Contents' = RP!Contents
<1>1. RP!Count' = RP!Count /\ \A k : RP!SlotAt(k)' = RP!SlotAt(k)
  BY DEF RP!Count, RP!SlotAt
<1> QED
  BY <1>1 DEF RP!Contents

(* What is left of the invariant once the ring's part is known.              *)
LEMMA Together ==
  ASSUME RP!IInv', pushPc' = "idle", skip_next' \in BOOLEAN, shift_pressed' \in BOOLEAN,
         want' \in ReadSizes \union {0}, got' \in 0 .. want', want' > 0 => got' < want',
         sent' \in Seq(Scancodes), Len(sent') <= MaxBytes,
         accepted' \in Seq(Chars), delivered' \in Seq(Chars),
         refused' \in Nat, refused' <= Len(sent'),
         delivered' \o RP!Contents' = accepted'
  PROVE  KInv'
<1>1. R!TypeOK' /\ R!Contents' = RP!Contents'
  <2>1. R!TypeOK' <=> RP!TypeOK'
    BY SameRing, PTL
  <2>2. R!Contents' = RP!Contents'
    BY SameRing DEF R!Contents, RP!Contents, R!Count, RP!Count, R!SlotAt, RP!SlotAt
  <2> QED
    BY <2>1, <2>2 DEF RP!IInv
<1>2. refused' \in 0 .. MaxBytes
  <2>1. Len(sent') \in Nat
    BY LenProperties
  <2> QED
    BY <2>1, KeyboardAssumption
<1>3. TypeOK'
  BY <1>1, <1>2 DEF TypeOK
<1>4. NoAcceptedKeyLost'
  BY <1>1 DEF NoAcceptedKeyLost
<1> QED
  BY <1>3, <1>4 DEF KInv

(* A character is queued or refused, and it is refused only when the ring is *)
(* full.                                                                     *)
LEMMA PushKeys ==
  ASSUME KInv, NEW c \in Chars, PushWhole(c)
  PROVE  /\ RP!IInv' /\ pushPc' = "idle" /\ accepted' \in Seq(Chars)
         /\ delivered \o RP!Contents' = accepted'
         /\ refused' = refused \/ (refused' = refused + 1 /\ RP!Full)
<1>1. /\ RP!IInv /\ delivered \o RP!Contents = accepted /\ pushPc = "idle"
      /\ delivered \in Seq(Chars) /\ accepted \in Seq(Chars) /\ RP!Contents \in Seq(Chars)
  BY KeptFacts
<1>2. CASE RP!Full
  <2>1. /\ UNCHANGED <<buf, head, accepted, tail, pushPc, pushVal, popPc, popVal, popResult>>
        /\ pushOk' = FALSE /\ refused' = refused + 1
    BY <1>2, SameRing DEF PushWhole
  <2>2. RP!IInv'
    BY <1>1, <2>1 DEF RP!IInv, RP!TypeOK, RP!CheckStillTrue, RP!InHand, RP!Empty, RP!Full,
                      RP!NextSlot
  <2> QED
    BY <1>1, <1>2, <2>1, <2>2, RingKept
<1>3. CASE ~RP!Full
  <2>1. RP!IInv' /\ RP!Contents' = Append(RP!Contents, c) /\ accepted' = Append(accepted, c)
    BY <1>1, <1>3, PushAppends
  <2>2. pushPc' = pushPc /\ refused' = refused
    BY <1>3, SameRing DEF PushWhole
  <2>3. delivered \o Append(RP!Contents, c) = Append(delivered \o RP!Contents, c)
    <3> DEFINE q == RP!Contents
    <3>1. q \in Seq(Chars) /\ delivered \in Seq(Chars)
      BY <1>1
    <3> HIDE DEF q
    <3>2. Append(q, c) = q \o <<c>> /\ <<c>> \in Seq(Chars)
      BY <3>1, AppendIsConcat
    <3>3. delivered \o q \in Seq(Chars)
      BY <3>1, ConcatProperties
    <3>4. Append(delivered \o q, c) = (delivered \o q) \o <<c>>
      BY <3>3, AppendIsConcat
    <3>5. (delivered \o q) \o <<c>> = delivered \o (q \o <<c>>)
      BY <3>1, <3>2, ConcatAssociative
    <3> QED
      BY <3>2, <3>4, <3>5 DEF q
  <2>4. Append(accepted, c) \in Seq(Chars)
    BY <1>1, AppendProperties
  <2> QED
    BY <1>1, <2>1, <2>2, <2>3, <2>4
<1> QED
  BY <1>2, <1>3

(* A byte of the controller: at most one character, and a refusal only when  *)
(* the ring is full.                                                         *)
LEMMA HandlerKeeps ==
  ASSUME KInv, NEW b \in Scancodes, KeyboardHandler(b)
  PROVE  KInv' /\ (refused' # refused => RP!Full)
<1>1. /\ KInv /\ RP!IInv /\ delivered \o RP!Contents = accepted /\ pushPc = "idle"
      /\ skip_next \in BOOLEAN /\ shift_pressed \in BOOLEAN
      /\ want \in ReadSizes \union {0} /\ got \in 0 .. want /\ (want > 0 => got < want)
      /\ sent \in Seq(Scancodes) /\ Len(sent) \in Nat /\ MaxBytes \in Nat
      /\ accepted \in Seq(Chars) /\ delivered \in Seq(Chars) /\ refused \in Nat
      /\ refused <= Len(sent)
  BY KeptFacts
<1>2. /\ sent' = Append(sent, b) /\ UNCHANGED <<want, got, delivered>> /\ Len(sent) < MaxBytes
  BY DEF KeyboardHandler, readerVars
<1>3. sent' \in Seq(Scancodes) /\ Len(sent') = Len(sent) + 1
  BY <1>1, <1>2, AppendProperties
<1>4. skip_next' \in BOOLEAN /\ shift_pressed' \in BOOLEAN
  BY <1>1 DEF KeyboardHandler, SkipByte, ExtendedPrefix, ShiftMake, OrdinaryByte
<1>5. /\ RP!IInv' /\ pushPc' = "idle" /\ accepted' \in Seq(Chars)
      /\ delivered \o RP!Contents' = accepted'
      /\ refused' = refused \/ (refused' = refused + 1 /\ RP!Full)
  <2>1. CASE UNCHANGED <<ringVars, inputHistory>>
    <3>1. /\ UNCHANGED <<buf, head, tail, pushPc, pushVal, popPc, popVal, pushOk, popResult>>
          /\ accepted' = accepted /\ refused' = refused
      BY <2>1 DEF ringVars, inputHistory
    <3>2. RP!IInv'
      BY <1>1, <3>1 DEF RP!IInv, RP!TypeOK, RP!CheckStillTrue, RP!InHand, RP!Empty, RP!Full,
                        RP!NextSlot
    <3> QED
      BY <1>1, <3>1, <3>2, RingKept
  <2>2. CASE OrdinaryByte(b)
    <3> DEFINE c == ScancodeToChar(b, shift_pressed)
    <3>1. UNCHANGED <<ringVars, inputHistory>> \/ (c # Nothing /\ PushWhole(c))
      BY <2>2 DEF OrdinaryByte
    <3>2. c # Nothing => c \in Chars
      BY TableAssumption DEF ScancodeToChar, TableFor, BreakBit
    <3> HIDE DEF c
    <3> QED
      BY <1>1, <2>1, <3>1, <3>2, PushKeys
  <2>3. CASE SkipByte \/ ExtendedPrefix(b) \/ ShiftMake(b)
    BY <2>1, <2>3 DEF SkipByte, ExtendedPrefix, ShiftMake
  <2> QED
    BY <2>2, <2>3 DEF KeyboardHandler
<1>6. refused' \in Nat /\ refused' <= Len(sent') /\ Len(sent') <= MaxBytes
  BY <1>1, <1>2, <1>3, <1>5
<1>7. /\ want' \in ReadSizes \union {0} /\ got' \in 0 .. want' /\ (want' > 0 => got' < want')
      /\ delivered' \in Seq(Chars) /\ delivered' \o RP!Contents' = accepted'
  BY <1>1, <1>2, <1>5
<1>8. KInv'
  BY <1>3, <1>4, <1>5, <1>6, <1>7, Together
<1> QED
  BY <1>1, <1>5, <1>8

(* The consumer, and a read of the device: a character leaves the ring when  *)
(* it is delivered.                                                          *)
LEMMA ReaderKeeps ==
  ASSUME KInv, Reader \/ \E n \in ReadSizes : DevReadEnter(n)
  PROVE  KInv' /\ refused' = refused
<1>1. /\ RP!IInv /\ delivered \o RP!Contents = accepted /\ pushPc = "idle"
      /\ skip_next \in BOOLEAN /\ shift_pressed \in BOOLEAN
      /\ want \in ReadSizes \union {0} /\ got \in 0 .. want /\ (want > 0 => got < want)
      /\ want \in Nat /\ got \in Nat
      /\ sent \in Seq(Scancodes) /\ Len(sent) <= MaxBytes
      /\ accepted \in Seq(Chars) /\ delivered \in Seq(Chars) /\ refused \in Nat
      /\ refused <= Len(sent) /\ RP!Contents \in Seq(Chars)
  BY KeptFacts
<1>2. UNCHANGED <<skip_next, shift_pressed, sent, accepted, refused>>
  BY DEF Reader, GetcharCheck, GetcharLoad, GetcharRelease, DevReadEnter, decoderVars, inputHistory
<1>3. RP!PopCheck \/ RP!PopLoad \/ RP!PopRelease => RP!IInv' /\ pushPc' = pushPc
  BY <1>1, RP!NextIInv, KeyboardAssumption
     DEF RP!Next, RP!Pop, RP!PopCheck, RP!PopLoad, RP!PopRelease, RP!producerVars
<1>4. ASSUME NEW n \in ReadSizes, DevReadEnter(n)
      PROVE  KInv'
  <2>1. /\ want = 0 /\ want' = n /\ got' = got /\ delivered' = delivered
        /\ UNCHANGED <<buf, head, tail, pushPc, pushVal, popPc, popVal, pushOk, popResult>>
    BY <1>4 DEF DevReadEnter, ringVars
  <2>2. RP!IInv' /\ pushPc' = "idle" /\ RP!Contents' = RP!Contents
    <3>1. RP!IInv'
      BY <1>1, <2>1 DEF RP!IInv, RP!TypeOK, RP!CheckStillTrue, RP!InHand, RP!Empty, RP!Full,
                        RP!NextSlot
    <3> QED
      BY <1>1, <2>1, <3>1, RingKept
  <2>3. want' \in ReadSizes \union {0} /\ got' \in 0 .. want' /\ (want' > 0 => got' < want')
    BY <1>1, <2>1, KeyboardAssumption
  <2> QED
    BY <1>1, <1>2, <2>1, <2>2, <2>3, Together
<1>5. CASE GetcharCheck
  <2>1. RP!PopCheck /\ delivered' = delivered
    BY <1>5, SamePop DEF GetcharCheck
  <2>2. RP!IInv' /\ pushPc' = "idle" /\ RP!Contents' = RP!Contents
    BY <1>1, <1>3, <2>1, RingKept DEF RP!PopCheck, RP!ringVars
  <2>3. want' \in ReadSizes \union {0} /\ got' \in 0 .. want' /\ (want' > 0 => got' < want')
    BY <1>1, <1>5 DEF GetcharCheck, readerVars
  <2> QED
    BY <1>1, <1>2, <2>1, <2>2, <2>3, Together
<1>6. CASE GetcharLoad
  <2>1. RP!PopLoad /\ delivered' = delivered /\ want' = want /\ got' = got
    BY <1>6, SamePop DEF GetcharLoad, readerVars
  <2>2. RP!IInv' /\ pushPc' = "idle" /\ RP!Contents' = RP!Contents
    BY <1>1, <1>3, <2>1, RingKept DEF RP!PopLoad, RP!ringVars
  <2> QED
    BY <1>1, <1>2, <2>1, <2>2, Together
<1>7. CASE GetcharRelease
  <2> DEFINE q == RP!Contents
  <2>1. RP!PopRelease /\ delivered' = Append(delivered, popVal)
    BY <1>7, SamePop DEF GetcharRelease
  <2>2. RP!IInv' /\ pushPc' = "idle"
    BY <1>1, <1>3, <2>1
  <2>3. q # <<>> /\ Head(q) = buf[tail] /\ RP!Contents' = Tail(q)
    BY <1>1, <2>1, RP!ReleaseDropsHead, KeyboardAssumption
  <2>4. popVal = buf[tail] /\ q \in Seq(Chars)
    BY <1>1, <2>1 DEF RP!IInv, RP!InHand, RP!PopRelease
  <2> HIDE DEF q
  <2>5. popVal \in Chars /\ Tail(q) \in Seq(Chars) /\ q = <<popVal>> \o Tail(q)
    BY <2>3, <2>4, HeadTailProperties
  <2>6. delivered' \in Seq(Chars) /\ delivered' = delivered \o <<popVal>>
    BY <1>1, <2>1, <2>5, AppendProperties, AppendIsConcat
  <2>7. <<popVal>> \in Seq(Chars)
    BY <2>5
  <2>8. delivered' \o Tail(q) = delivered \o q
    <3> DEFINE r == Tail(q)
               v == <<popVal>>
    <3>1. /\ r \in Seq(Chars) /\ v \in Seq(Chars) /\ delivered \in Seq(Chars)
          /\ q = v \o r /\ delivered' = delivered \o v
      BY <1>1, <2>5, <2>6, <2>7
    <3> HIDE DEF r, v
    <3>2. (delivered \o v) \o r = delivered \o (v \o r)
      BY <3>1, ConcatAssociative
    <3>3. delivered' \o r = delivered \o q
      BY <3>1, <3>2
    <3> QED
      BY <3>3 DEF r
  <2>9. delivered' \o RP!Contents' = accepted'
    BY <1>1, <1>2, <2>3, <2>8 DEF q
  <2>10. want' \in ReadSizes \union {0} /\ got' \in 0 .. want' /\ (want' > 0 => got' < want')
    BY <1>1, <1>7 DEF GetcharRelease, readerVars
  <2> QED
    BY <1>1, <1>2, <2>2, <2>6, <2>9, <2>10, Together
<1> QED
  BY <1>2, <1>4, <1>5, <1>6, <1>7 DEF Reader

LEMMA KeysStep ==
  ASSUME KInv, [Next]_vars
  PROVE  KInv' /\ (refused' # refused => Len(accepted) - Len(delivered) = Size - 1)
<1>1. ASSUME RP!Full
      PROVE  Len(accepted) - Len(delivered) = Size - 1
  <2> DEFINE q == RP!Contents
  <2>1. /\ delivered \o q = accepted /\ delivered \in Seq(Chars) /\ q \in Seq(Chars)
        /\ Len(q) = Size - 1
    BY <1>1, KeptFacts, RingFacts
  <2> HIDE DEF q
  <2>2. Len(accepted) = Len(delivered) + Len(q) /\ Len(delivered) \in Nat
    BY <2>1, ConcatProperties, LenProperties
  <2> QED
    BY <2>1, <2>2, KeyboardAssumption
<1>2. ASSUME NEW b \in Scancodes, KeyboardHandler(b)
      PROVE  KInv' /\ (refused' # refused => RP!Full)
  BY <1>2, HandlerKeeps
<1>3. CASE UNCHANGED vars
  <2>1. UNCHANGED <<buf, head, tail, pushPc, pushVal, popPc, popVal, pushOk, popResult>>
        /\ UNCHANGED <<skip_next, shift_pressed, want, got, sent, accepted, refused, delivered>>
    BY <1>3 DEF vars, ringVars, decoderVars, readerVars, inputHistory
  <2>2. RP!IInv'
    BY <2>1 DEF KInv, RP!IInv, RP!TypeOK, RP!CheckStillTrue, RP!InHand, RP!Empty, RP!Full,
                RP!NextSlot
  <2> QED
    BY <2>1, <2>2, KeptFacts, RingKept, Together
<1> QED
  BY <1>1, <1>2, <1>3, ReaderKeeps DEF Next

(* Whatever bytes come and wherever the interrupt falls in keyboard_getchar, *)
(* every character accepted is delivered once and in order or still in the   *)
(* ring, and one is refused only when the consumer is RING_SIZE - 1 behind   *)
(* (keyboard.c: keyboard_handler, keyboard_getchar, kbd_dev_read), for any   *)
(* tables, size of the ring and lengths of a read.                           *)
THEOREM KeyboardKeepsKeys == Spec => KeysKept
<1>1. Init => KInv
  BY InitKeys
<1>2. KInv /\ [Next]_vars => KInv'
  BY KeysStep
<1>3. KInv /\ [Next]_vars =>
        [/\ TypeOK' /\ NoAcceptedKeyLost'
         /\ refused' # refused => Len(accepted) - Len(delivered) = Size - 1]_vars
  BY KeysStep DEF KInv
<1> QED
  BY <1>1, <1>2, <1>3, PTL DEF Spec, KeysKept

-----------------------------------------------------------------------------
(* What the bytes mean.                                                      *)

(* The flags of the handler say of the bytes so far what is to be known of   *)
(* them, and the queue has what they stand for, each key refused left out:   *)
(* the handler shifts the first key under a shift and no other.              *)
Fresh(s) == {i \in 1 .. Len(s) : AfterShift(s, i)}

FlagsTell ==
  /\ \E n \in 0 .. Len(sent) :
       PrefixRun(sent, Len(sent) + 1, n) /\ (skip_next <=> n % 2 = 1)
  /\ shift_pressed <=> AfterShift(sent, Len(sent) + 1)

QueueTells ==
  \E lost \in SUBSET (1 .. Len(sent)) :
    Cardinality(lost) = refused /\ Spells(accepted, sent, Fresh(sent), lost)

TInv == FlagsTell /\ QueueTells

(* A run of prefixes has one length. *)
LEMMA RunIsOne ==
  ASSUME NEW s, NEW i \in Nat, NEW n \in 0 .. i - 1, PrefixRun(s, i, n)
  PROVE  Swallowed(s, i) <=> n % 2 = 1
  <1>1. ASSUME NEW m \in 0 .. i - 1, PrefixRun(s, i, m) PROVE m = n
    <2>1. CASE m < n
      <3>1. i - m - 1 \in i - n .. i - 1 /\ i - m > 1
        BY <2>1
      <3> QED
        BY <1>1, <3>1 DEF PrefixRun
    <2>2. CASE n < m
      <3>1. i - n - 1 \in i - m .. i - 1 /\ i - n > 1
        BY <2>2
      <3> QED
        BY <1>1, <3>1 DEF PrefixRun
    <2> QED
      BY <2>1, <2>2
  <1> QED
    BY <1>1 DEF Swallowed

(* What has been said of a byte stays true when others follow.               *)
SaidBefore(s, t) ==
  /\ \A i \in 1 .. Len(s) + 1 : Swallowed(t, i) <=> Swallowed(s, i)
  /\ \A i \in 1 .. Len(s) : t[i] = s[i] /\ (Significant(t, i) <=> Significant(s, i))
  /\ \A i \in 1 .. Len(s) + 1 : AfterShift(t, i) <=> AfterShift(s, i)

LEMMA Earlier ==
  ASSUME NEW S, NEW s \in Seq(S), NEW b \in S, NEW t, t = Append(s, b)
  PROVE  SaidBefore(s, t)
  <1>1. Len(s) \in Nat /\ \A k \in 1 .. Len(s) : t[k] = s[k]
    BY AppendProperties
  <1>2. ASSUME NEW i \in 1 .. Len(s) + 1, NEW n \in 0 .. i - 1
        PROVE  PrefixRun(t, i, n) <=> PrefixRun(s, i, n)
    <2>1. i - n .. i - 1 \subseteq 1 .. Len(s)
      BY <1>1
    <2>2. i - n > 1 => i - n - 1 \in 1 .. Len(s)
      BY <1>1
    <2> QED
      BY <1>1, <2>1, <2>2 DEF PrefixRun
  <1>3. \A i \in 1 .. Len(s) + 1 : Swallowed(t, i) <=> Swallowed(s, i)
    BY <1>2 DEF Swallowed
  <1>4. \A i \in 1 .. Len(s) : Significant(t, i) <=> Significant(s, i)
    BY <1>1, <1>3 DEF Significant
  <1>5. ASSUME NEW i \in 1 .. Len(s) + 1 PROVE AfterShift(t, i) <=> AfterShift(s, i)
    <2>1. 1 .. i - 1 \subseteq 1 .. Len(s) /\ \A j \in 1 .. i - 1 : j + 1 .. i - 1 \subseteq 1 .. i - 1
      BY <1>1
    <2>2. \A j \in 1 .. i - 1 : (Significant(t, j) <=> Significant(s, j)) /\ t[j] = s[j]
      BY <1>1, <1>4, <2>1
    <2> QED
      BY <2>1, <2>2 DEF AfterShift
  <1> QED
    BY <1>1, <1>3, <1>4, <1>5 DEF SaidBefore

(* And so is which character it types.                                       *)
LEMMA EarlierChars ==
  ASSUME NEW S, NEW s \in Seq(S), NEW b \in S, NEW t, t = Append(s, b)
  PROVE  \A i \in 1 .. Len(s) : CharAt(t, i, AfterShift(t, i)) = CharAt(s, i, AfterShift(s, i))
  <1>1. SaidBefore(s, t)
    BY Earlier
  <1>2. ASSUME NEW i \in 1 .. Len(s)
        PROVE  CharAt(t, i, AfterShift(t, i)) = CharAt(s, i, AfterShift(s, i))
    <2>1. /\ t[i] = s[i] /\ (Significant(t, i) <=> Significant(s, i))
          /\ (AfterShift(t, i) <=> AfterShift(s, i)) 
      BY <1>1 DEF SaidBefore
    <2> HIDE DEF AfterShift, Significant
    <2>2. CASE AfterShift(s, i)
      <3>1. ScancodeToChar(t[i], AfterShift(t, i)) = ScancodeToChar(s[i], AfterShift(s, i))
        BY <2>1, <2>2 DEF ScancodeToChar, TableFor
      <3> QED
        BY <2>1, <3>1 DEF CharAt
    <2>3. CASE ~AfterShift(s, i)
      <3>1. ScancodeToChar(t[i], AfterShift(t, i)) = ScancodeToChar(s[i], AfterShift(s, i))
        BY <2>1, <2>3 DEF ScancodeToChar, TableFor
      <3> QED
        BY <2>1, <3>1 DEF CharAt
    <2> QED
      BY <2>2, <2>3
  <1> QED
    BY <1>2

(* Of the byte that comes, and of those after it.                            *)
LEMMA LatestByte ==
  ASSUME NEW S, NEW s \in Seq(S), NEW b \in S, NEW t, t = Append(s, b),
         NEW n \in 0 .. Len(s), PrefixRun(s, Len(s) + 1, n)
  PROVE  /\ Significant(t, Len(s) + 1) <=> n % 2 # 1 /\ b # Extended
         /\ b = Extended => PrefixRun(t, Len(s) + 2, n + 1)
         /\ b # Extended => PrefixRun(t, Len(s) + 2, 0)
         /\ AfterShift(t, Len(s) + 2) <=>
              IF n % 2 # 1 /\ b # Extended THEN b \in {LShift, RShift}
                                           ELSE AfterShift(s, Len(s) + 1)
  <1> DEFINE l == Len(s)
  <1>1. l \in Nat /\ t[l + 1] = b /\ \A k \in 1 .. l : t[k] = s[k]
    BY AppendProperties
  <1>2. /\ PrefixRun(s, l + 1, n) /\ n \in 0 .. l
        /\ Swallowed(t, l + 1) <=> Swallowed(s, l + 1)
        /\ \A i \in 1 .. l : Significant(t, i) <=> Significant(s, i)
    <2>1. SaidBefore(s, t)
      BY Earlier
    <2>2. l + 1 \in 1 .. l + 1
      BY <1>1
    <2> QED
      BY <2>1, <2>2 DEF SaidBefore
  <1> HIDE DEF l
  <1>3. Swallowed(s, l + 1) <=> n % 2 = 1
    BY <1>1, <1>2, RunIsOne
  <1>4. Significant(t, l + 1) <=> n % 2 # 1 /\ b # Extended
    BY <1>1, <1>2, <1>3 DEF Significant
  <1>5. ASSUME b = Extended PROVE PrefixRun(t, l + 2, n + 1)
    <2>1. ASSUME NEW k \in (l + 2) - (n + 1) .. (l + 2) - 1 PROVE t[k] = Extended
      <3>1. CASE k = l + 1
        BY <1>1, <1>5, <3>1
      <3>2. CASE k # l + 1
        <4>1. k \in (l + 1) - n .. (l + 1) - 1 /\ k \in 1 .. l
          BY <1>1, <1>2, <3>2
        <4> QED
          BY <1>1, <1>2, <4>1 DEF PrefixRun
      <3> QED
        BY <3>1, <3>2
    <2>2. ASSUME (l + 2) - (n + 1) > 1 PROVE t[(l + 2) - (n + 1) - 1] # Extended
      <3>1. (l + 2) - (n + 1) - 1 = (l + 1) - n - 1 /\ (l + 1) - n > 1 /\ (l + 1) - n - 1 \in 1 .. l
        BY <1>1, <1>2, <2>2
      <3> QED
        BY <1>1, <1>2, <3>1 DEF PrefixRun
    <2> QED
      BY <2>1, <2>2 DEF PrefixRun
  <1>6. ASSUME b # Extended PROVE PrefixRun(t, l + 2, 0)
    <2>1. (l + 2) - 0 - 1 = l + 1 /\ \A k \in (l + 2) - 0 .. (l + 2) - 1 : FALSE
      BY <1>1
    <2> QED
      BY <1>1, <1>6, <2>1 DEF PrefixRun
  <1>7. ASSUME n % 2 # 1, b # Extended PROVE AfterShift(t, l + 2) <=> b \in {LShift, RShift}
    <2>1. Significant(t, l + 1)
      BY <1>4, <1>7
    <2>2. ASSUME NEW j \in 1 .. (l + 2) - 1, \A k \in j + 1 .. (l + 2) - 1 : ~Significant(t, k)
          PROVE  j = l + 1
      <3>1. ~(l + 1 \in j + 1 .. (l + 2) - 1)
        BY <2>1, <2>2
      <3> QED
        BY <1>1, <3>1
    <2>3. l + 1 \in 1 .. (l + 2) - 1 /\ \A k \in (l + 1) + 1 .. (l + 2) - 1 : FALSE
      BY <1>1
    <2> QED
      BY <1>1, <2>1, <2>2, <2>3 DEF AfterShift
  <1>8. ASSUME ~(n % 2 # 1 /\ b # Extended) PROVE AfterShift(t, l + 2) <=> AfterShift(s, l + 1)
    <2>1. ~Significant(t, l + 1)
      BY <1>4, <1>8
    <2>2. ASSUME NEW j \in 1 .. l
          PROVE  (\A k \in j + 1 .. (l + 2) - 1 : ~Significant(t, k)) <=>
                 (\A k \in j + 1 .. (l + 1) - 1 : ~Significant(s, k))
      <3>1. \A k \in j + 1 .. (l + 2) - 1 : k = l + 1 \/ k \in j + 1 .. (l + 1) - 1
        BY <1>1
      <3>2. \A k \in j + 1 .. (l + 1) - 1 : k \in j + 1 .. (l + 2) - 1 /\ k \in 1 .. l
        BY <1>1
      <3> QED
        BY <1>2, <2>1, <3>1, <3>2
    <2>3. \A j \in 1 .. (l + 2) - 1 : j = l + 1 \/ j \in 1 .. l
      BY <1>1
    <2>4. (l + 1) - 1 = l /\ \A j \in 1 .. l : j \in 1 .. (l + 2) - 1
      BY <1>1
    <2> QED
      BY <1>1, <1>2, <2>1, <2>2, <2>3, <2>4 DEF AfterShift
  <1> QED
    BY <1>4, <1>5, <1>6, <1>7, <1>8 DEF l

(* The bytes that type a character, counted without those lost.              *)
Types(s)         == {i \in 1 .. Len(s) : CharAt(s, i, AfterShift(s, i)) # Nothing}
UpTo(s, lost, i) == {j \in Types(s) \ lost : j <= i}

LEMMA SpellsIs ==
  ASSUME NEW S, NEW s \in Seq(S), NEW q, NEW lost
  PROVE  Spells(q, s, Fresh(s), lost) <=>
           /\ lost \subseteq Types(s)
           /\ Len(q) = Cardinality(Types(s) \ lost)
           /\ \A i \in Types(s) \ lost :
                q[Cardinality(UpTo(s, lost, i))] = CharAt(s, i, AfterShift(s, i))
  <1>1. DOMAIN s = 1 .. Len(s)
    BY LenProperties
  <1>2. \A i \in 1 .. Len(s) : CharAt(s, i, i \in Fresh(s)) = CharAt(s, i, AfterShift(s, i))
    <2>1. ASSUME NEW i \in 1 .. Len(s)
          PROVE  CharAt(s, i, i \in Fresh(s)) = CharAt(s, i, AfterShift(s, i))
      <3>1. i \in Fresh(s) <=> AfterShift(s, i)
        BY DEF Fresh
      <3> HIDE DEF Fresh, AfterShift
      <3>2. ScancodeToChar(s[i], i \in Fresh(s)) = ScancodeToChar(s[i], AfterShift(s, i))
        <4>1. CASE AfterShift(s, i)
          BY <3>1, <4>1 DEF ScancodeToChar, TableFor
        <4>2. CASE ~AfterShift(s, i)
          BY <3>1, <4>2 DEF ScancodeToChar, TableFor
        <4> QED
          BY <4>1, <4>2
      <3> QED
        BY <3>2 DEF CharAt
    <2> QED
      BY <2>1
  <1>3. Typing(s, Fresh(s)) = Types(s) /\ Types(s) \subseteq 1 .. Len(s)
    BY <1>1, <1>2 DEF Typing, Types
  <1>4. \A i : UpTo(s, lost, i) = {j \in Types(s) \ lost : j <= i}
    BY DEF UpTo
  <1> HIDE DEF Fresh, Types, UpTo, CharAt, AfterShift, Typing
  <1>5. \A i \in Types(s) \ lost : CharAt(s, i, i \in Fresh(s)) = CharAt(s, i, AfterShift(s, i))
    BY <1>2, <1>3
  <1> QED
    BY <1>3, <1>4, <1>5 DEF Spells

LEMMA TypesCount ==
  ASSUME NEW S, NEW s \in Seq(S), NEW lost
  PROVE  /\ IsFiniteSet(Types(s) \ lost) /\ Cardinality(Types(s) \ lost) \in Nat
         /\ \A i \in Types(s) \ lost :
              Cardinality(UpTo(s, lost, i)) \in 1 .. Cardinality(Types(s) \ lost)
  <1> DEFINE T == Types(s) \ lost
  <1>1. IsFiniteSet(1 .. Len(s))
    <2>1. Len(s) \in Int
      BY LenProperties
    <2> QED
      BY <2>1, FS_Interval
  <1>2. IsFiniteSet(T)
    <2>1. T \subseteq 1 .. Len(s)
      BY DEF Types
    <2> QED
      BY <1>1, <2>1, FS_Subset
  <1>3. ASSUME NEW i \in T PROVE Cardinality(UpTo(s, lost, i)) \in 1 .. Cardinality(T)
    <2> DEFINE U == UpTo(s, lost, i)
    <2>1. U \subseteq T /\ i \in U
      BY LenProperties DEF UpTo, Types
    <2> HIDE DEF U, T
    <2>2. IsFiniteSet(U) /\ Cardinality(U) <= Cardinality(T)
      BY <1>2, <2>1, FS_Subset
    <2>3. Cardinality(U) # 0
      BY <2>1, <2>2, FS_EmptySet
    <2>4. Cardinality(U) \in Nat /\ Cardinality(T) \in Nat
      BY <1>2, <2>2, FS_CardinalityType
    <2> QED
      BY <2>2, <2>3, <2>4 DEF U
  <1> QED
    BY <1>2, <1>3, FS_CardinalityType

(* A byte that types nothing changes nothing; one that does is queued or lost. *)
LEMMA SpellsOn ==
  ASSUME NEW S, NEW s \in Seq(S), NEW b \in S, NEW t, t = Append(s, b),
         NEW q \in Seq(Chars), NEW lost, Spells(q, s, Fresh(s), lost),
         NEW c, c = CharAt(t, Len(s) + 1, AfterShift(t, Len(s) + 1))
  PROVE  /\ lost \subseteq 1 .. Len(s)
         /\ c = Nothing => Spells(q, t, Fresh(t), lost)
         /\ c # Nothing => Spells(q, t, Fresh(t), lost \union {Len(s) + 1})
         /\ c # Nothing /\ c \in Chars => Spells(Append(q, c), t, Fresh(t), lost)
  <1> DEFINE l == Len(s)
             T == Types(s) \ lost
             Count(i) == Cardinality(UpTo(s, lost, i))
  <1>1. l \in Nat /\ Len(t) = l + 1 /\ t \in Seq(S)
    BY AppendProperties
  <1>2. \A i \in 1 .. l : CharAt(t, i, AfterShift(t, i)) = CharAt(s, i, AfterShift(s, i))
    BY EarlierChars
  <1>3. /\ lost \subseteq Types(s) /\ Len(q) = Cardinality(T)
        /\ \A i \in T : q[Count(i)] = CharAt(s, i, AfterShift(s, i))
    BY SpellsIs
  <1>4. /\ IsFiniteSet(T) /\ Cardinality(T) \in Nat
        /\ \A i \in T : Count(i) \in 1 .. Cardinality(T)
    BY TypesCount
  <1>5. Types(s) = {i \in 1 .. l : CharAt(s, i, AfterShift(s, i)) # Nothing}
        /\ T = Types(s) \ lost
        /\ \A i : Count(i) = Cardinality({j \in T : j <= i})
    BY DEF Types, UpTo
  <1>6. Types(t) = {i \in 1 .. l + 1 : CharAt(t, i, AfterShift(t, i)) # Nothing}
    BY <1>1 DEF Types
  <1>7. c = CharAt(t, l + 1, AfterShift(t, l + 1))
    OBVIOUS
  <1> HIDE DEF l, T, Count
  <1>8. /\ Types(s) \subseteq 1 .. l /\ ~(l + 1 \in 1 .. l)
        /\ Types(t) = IF c = Nothing THEN Types(s) ELSE Types(s) \union {l + 1}
    <2>1. \A i \in 1 .. l : i \in Types(t) <=> i \in Types(s)
      BY <1>1, <1>2, <1>5, <1>6
    <2>2. l + 1 \in Types(t) <=> c # Nothing
      BY <1>1, <1>6, <1>7
    <2>3. Types(s) \subseteq 1 .. l /\ Types(t) \subseteq 1 .. l + 1
      BY <1>5, <1>6
    <2>4. \A i \in 1 .. l + 1 : i = l + 1 \/ i \in 1 .. l
      BY <1>1
    <2>5. ~(l + 1 \in 1 .. l)
      BY <1>1
    <2>6. CASE c = Nothing
      <3>1. ASSUME NEW x PROVE x \in Types(t) <=> x \in Types(s)
        BY <2>1, <2>2, <2>3, <2>4, <2>6
      <3> QED
        BY <2>3, <2>5, <2>6, <3>1
    <2>7. CASE c # Nothing
      BY <2>1, <2>2, <2>3, <2>4, <2>5, <2>7
    <2> QED
      BY <2>6, <2>7
  <1>9. l + 1 \notin lost /\ l + 1 \notin T /\ T \subseteq 1 .. l
    BY <1>3, <1>5, <1>8
  <1>10. ASSUME NEW gone, Types(t) \ gone = T
         PROVE  \A i \in T : /\ i \in 1 .. l /\ Cardinality(UpTo(t, gone, i)) = Count(i)
                              /\ CharAt(t, i, AfterShift(t, i)) = CharAt(s, i, AfterShift(s, i))
    <2>1. \A i \in T : UpTo(t, gone, i) = {j \in T : j <= i}
      BY <1>10 DEF UpTo
    <2> QED
      BY <1>2, <1>5, <1>9, <2>1
  <1>11. ASSUME NEW gone, gone \subseteq Types(t), Types(t) \ gone = T
         PROVE  Spells(q, t, Fresh(t), gone)
    <2>1. \A i \in T : q[Cardinality(UpTo(t, gone, i))] = CharAt(t, i, AfterShift(t, i))
      BY <1>3, <1>10, <1>11
    <2> QED
      BY <1>1, <1>3, <1>11, <2>1, SpellsIs
  <1>12. ASSUME c = Nothing PROVE Spells(q, t, Fresh(t), lost)
    <2>1. lost \subseteq Types(t) /\ Types(t) \ lost = T
      BY <1>3, <1>5, <1>8, <1>12
    <2> QED
      BY <1>11, <2>1
  <1>13. ASSUME c # Nothing PROVE Spells(q, t, Fresh(t), lost \union {l + 1})
    <2>1. lost \union {l + 1} \subseteq Types(t) /\ Types(t) \ (lost \union {l + 1}) = T
      BY <1>3, <1>5, <1>8, <1>9, <1>13
    <2> QED
      BY <1>11, <2>1
  <1>14. ASSUME c # Nothing, c \in Chars PROVE Spells(Append(q, c), t, Fresh(t), lost)
    <2>1. PICK r : r = Append(q, c)
      OBVIOUS
    <2>2. /\ Len(r) = Len(q) + 1 /\ r[Len(q) + 1] = c
          /\ \A k \in 1 .. Len(q) : r[k] = q[k]
      BY <1>14, <2>1, AppendProperties
    <2>3. Types(t) \ lost = T \union {l + 1} /\ l + 1 \notin T /\ lost \subseteq Types(t)
      BY <1>3, <1>5, <1>8, <1>9, <1>14
    <2>4. Cardinality(Types(t) \ lost) = Cardinality(T) + 1
      BY <1>4, <2>3, FS_AddElement
    <2>5. ASSUME NEW i \in T
          PROVE  r[Cardinality(UpTo(t, lost, i))] = CharAt(t, i, AfterShift(t, i))
      <3>1. Count(i) \in 1 .. Len(q)
        BY <1>3, <1>4
      <3>2. i \in 1 .. l /\ ~(l + 1 <= i)
        BY <1>1, <1>9
      <3>3. UpTo(t, lost, i) = {j \in T : j <= i}
        BY <2>3, <3>2 DEF UpTo
      <3>4. Cardinality(UpTo(t, lost, i)) = Count(i)
        BY <1>5, <3>3
      <3>5. CharAt(t, i, AfterShift(t, i)) = CharAt(s, i, AfterShift(s, i))
        BY <1>2, <3>2
      <3> QED
        BY <1>3, <2>2, <3>1, <3>4, <3>5
    <2>6. r[Cardinality(UpTo(t, lost, l + 1))] = CharAt(t, l + 1, AfterShift(t, l + 1))
      <3>1. \A j \in T : j <= l + 1
        BY <1>1, <1>9
      <3>2. UpTo(t, lost, l + 1) = Types(t) \ lost
        BY <1>1, <2>3, <3>1 DEF UpTo
      <3> QED
        BY <1>3, <1>7, <2>2, <2>4, <3>2
    <2>7. \A i \in Types(t) \ lost :
            r[Cardinality(UpTo(t, lost, i))] = CharAt(t, i, AfterShift(t, i))
      BY <2>3, <2>5, <2>6
    <2>8. Len(r) = Cardinality(Types(t) \ lost)
      BY <1>3, <2>2, <2>4
    <2> QED
      BY <1>1, <2>1, <2>3, <2>7, <2>8, SpellsIs
  <1> QED
    BY <1>3, <1>8, <1>12, <1>13, <1>14 DEF l

LEMMA InitTells == Init => TInv
<1> SUFFICES ASSUME Init PROVE TInv
  OBVIOUS
<1>1. sent = <<>> /\ accepted = <<>> /\ skip_next = FALSE /\ shift_pressed = FALSE
  BY DEF Init
<1>2. Len(sent) = 0 /\ Len(accepted) = 0
  BY <1>1
<1>3. FlagsTell
  <2>1. PrefixRun(sent, Len(sent) + 1, 0) /\ 0 \in 0 .. Len(sent) /\ 0 % 2 # 1
    BY <1>2 DEF PrefixRun
  <2>2. ~AfterShift(sent, Len(sent) + 1)
    BY <1>2 DEF AfterShift
  <2> QED
    BY <1>1, <2>1, <2>2 DEF FlagsTell
<1>4. QueueTells
  <2>1. Types(sent) = {} /\ sent \in Seq(Scancodes) /\ refused = 0
    BY <1>1, <1>2 DEF Types, Init
  <2>2. Types(sent) \ {} = {} /\ Cardinality({}) = 0
    BY <2>1, FS_EmptySet
  <2>3. Spells(accepted, sent, Fresh(sent), {})
    BY <1>2, <2>1, <2>2, SpellsIs
  <2> QED
    BY <2>1, <2>2, <2>3 DEF QueueTells
<1> QED
  BY <1>3, <1>4 DEF TInv

(* The handler, with the byte it has been given.                             *)
LEMMA HandlerTells ==
  ASSUME KInv, TInv, NEW b \in Scancodes, KeyboardHandler(b)
  PROVE  TInv'
<1>1. /\ sent \in Seq(Scancodes) /\ accepted \in Seq(Chars) /\ refused \in Nat
      /\ Len(sent) \in Nat /\ skip_next \in BOOLEAN /\ shift_pressed \in BOOLEAN
  BY KeptFacts
<1>2. PICK t : t = Append(sent, b)
  OBVIOUS
<1>3. PICK n \in 0 .. Len(sent) : PrefixRun(sent, Len(sent) + 1, n) /\ (skip_next <=> n % 2 = 1)
  BY DEF TInv, FlagsTell
<1>4. shift_pressed <=> AfterShift(sent, Len(sent) + 1)
  BY DEF TInv, FlagsTell
<1>5. PICK l : l = Len(sent)
  OBVIOUS
<1>6. /\ sent' = t /\ Len(t) = l + 1 /\ l \in Nat /\ n \in 0 .. l /\ t[l + 1] = b
  BY <1>1, <1>2, <1>5, AppendProperties DEF KeyboardHandler
<1>7. /\ Significant(t, l + 1) <=> ~skip_next /\ b # Extended
      /\ b = Extended => PrefixRun(t, l + 2, n + 1)
      /\ b # Extended => PrefixRun(t, l + 2, 0)
      /\ AfterShift(t, l + 2) <=> IF ~skip_next /\ b # Extended THEN b \in {LShift, RShift}
                                                                ELSE shift_pressed
  BY <1>1, <1>2, <1>3, <1>4, <1>5, LatestByte
<1>8. AfterShift(t, l + 1) <=> shift_pressed
  <2>1. SaidBefore(sent, t)
    BY <1>1, <1>2, Earlier
  <2>2. l + 1 \in 1 .. Len(sent) + 1
    BY <1>5, <1>6
  <2> QED
    BY <1>4, <1>5, <2>1, <2>2 DEF SaidBefore
<1>9. SkipByte \/ ExtendedPrefix(b) \/ ShiftMake(b) \/ OrdinaryByte(b)
  BY DEF KeyboardHandler
<1>10. Extended \notin {LShift, RShift}
  BY DEF Extended, LShift, RShift
<1>11. /\ skip_next' <=> ~skip_next /\ b = Extended
       /\ shift_pressed' <=> IF ~skip_next /\ b # Extended THEN b \in {LShift, RShift}
                                                           ELSE shift_pressed
  BY <1>1, <1>9, <1>10 DEF SkipByte, ExtendedPrefix, ShiftMake, OrdinaryByte
<1>12. FlagsTell'
  <2>1. shift_pressed' <=> AfterShift(t, l + 2)
    BY <1>7, <1>11
  <2>2. \E k \in 0 .. l + 1 : PrefixRun(t, l + 2, k) /\ (skip_next' <=> k % 2 = 1)
    <3>1. CASE b = Extended
      <4>1. n + 1 \in 0 .. l + 1 /\ ((n + 1) % 2 = 1 <=> n % 2 # 1)
        BY <1>6
      <4> QED
        BY <1>3, <1>7, <1>11, <3>1, <4>1
    <3>2. CASE b # Extended
      <4>1. 0 \in 0 .. l + 1 /\ 0 % 2 # 1
        BY <1>6
      <4> QED
        BY <1>7, <1>11, <3>2, <4>1
    <3> QED
      BY <3>1, <3>2
  <2>3. Len(sent') = l + 1 /\ (l + 1) + 1 = l + 2
    BY <1>6
  <2> QED
    BY <1>6, <2>1, <2>2, <2>3 DEF FlagsTell
<1>13. PICK c : c = CharAt(t, Len(sent) + 1, AfterShift(t, Len(sent) + 1))
  OBVIOUS
<1>14. c = IF ~skip_next /\ b \notin {Extended, LShift, RShift}
             THEN ScancodeToChar(b, shift_pressed) ELSE Nothing
  <2>1. ScancodeToChar(t[l + 1], AfterShift(t, l + 1)) = ScancodeToChar(b, shift_pressed)
    <3>1. CASE shift_pressed
      BY <1>6, <1>8, <3>1 DEF ScancodeToChar, TableFor
    <3>2. CASE ~shift_pressed
      BY <1>6, <1>8, <3>2 DEF ScancodeToChar, TableFor
    <3> QED
      BY <3>1, <3>2
  <2> QED
    BY <1>5, <1>6, <1>7, <1>13, <2>1 DEF CharAt
<1>15. \/ c = Nothing /\ accepted' = accepted /\ refused' = refused
       \/ c # Nothing /\ accepted' = accepted /\ refused' = refused + 1
       \/ c # Nothing /\ accepted' = Append(accepted, c) /\ refused' = refused
  <2>1. CASE SkipByte \/ ExtendedPrefix(b) \/ ShiftMake(b)
    BY <1>14, <2>1 DEF SkipByte, ExtendedPrefix, ShiftMake, inputHistory
  <2>2. CASE OrdinaryByte(b)
    <3>1. c = ScancodeToChar(b, shift_pressed)
      BY <1>14, <2>2 DEF OrdinaryByte
    <3>2. CASE c # Nothing
      <4>1. PushWhole(c)
        BY <2>2, <3>1, <3>2 DEF OrdinaryByte
      <4> QED
        BY <3>2, <4>1 DEF PushWhole
    <3>3. CASE c = Nothing
      BY <2>2, <3>1, <3>3 DEF OrdinaryByte, inputHistory
    <3> QED
      BY <3>2, <3>3
  <2> QED
    BY <1>9, <2>1, <2>2
<1>16. PICK lost \in SUBSET (1 .. Len(sent)) :
         Cardinality(lost) = refused /\ Spells(accepted, sent, Fresh(sent), lost)
  BY DEF TInv, QueueTells
<1>17. c # Nothing => c \in Chars
  BY <1>14, TableAssumption DEF ScancodeToChar, TableFor, BreakBit
<1>18. /\ c = Nothing => Spells(accepted, t, Fresh(t), lost)
       /\ c # Nothing => Spells(accepted, t, Fresh(t), lost \union {l + 1})
       /\ c # Nothing => Spells(Append(accepted, c), t, Fresh(t), lost)
  BY <1>1, <1>2, <1>5, <1>13, <1>16, <1>17, SpellsOn
<1>19. Cardinality(lost \union {l + 1}) = Cardinality(lost) + 1
  <2>1. IsFiniteSet(lost)
    <3>1. l \in Int /\ 1 \in Int /\ lost \subseteq 1 .. l
      BY <1>5, <1>6, <1>16
    <3>2. IsFiniteSet(1 .. l)
      BY <3>1, FS_Interval
    <3> QED
      BY <3>1, <3>2, FS_Subset
  <2>2. l + 1 \notin lost
    BY <1>5, <1>6, <1>16
  <2> QED
    BY <2>1, <2>2, FS_AddElement
<1>20. QueueTells'
  <2>1. lost \in SUBSET (1 .. l + 1) /\ lost \union {l + 1} \in SUBSET (1 .. l + 1)
    <3>1. \A i \in 1 .. l : i \in 1 .. l + 1
      BY <1>6
    <3>2. \A i \in lost : i \in 1 .. l + 1
      BY <1>5, <1>16, <3>1
    <3>3. l + 1 \in 1 .. l + 1
      BY <1>6
    <3> QED
      BY <3>2, <3>3
  <2>2. \E gone \in SUBSET (1 .. l + 1) :
          Cardinality(gone) = refused' /\ Spells(accepted', t, Fresh(t), gone)
    BY <1>15, <1>16, <1>18, <1>19, <2>1
  <2>3. sent' = t /\ Len(t) = l + 1
    BY <1>6
  <2> QED
    BY <2>2, <2>3 DEF QueueTells
<1> QED
  BY <1>12, <1>20 DEF TInv

(* The reader takes characters and gives the handler nothing to decode.      *)
LEMMA StepTells == KInv /\ TInv /\ [Next]_vars => TInv'
<1> SUFFICES ASSUME KInv, TInv, [Next]_vars PROVE TInv'
  OBVIOUS
<1>1. ASSUME UNCHANGED <<skip_next, shift_pressed, sent, accepted, refused>> PROVE TInv'
  BY <1>1 DEF TInv, FlagsTell, QueueTells
<1>2. ASSUME NEW b \in Scancodes, KeyboardHandler(b) PROVE TInv'
  BY <1>2, HandlerTells
<1>3. CASE Reader \/ \E n \in ReadSizes : DevReadEnter(n)
  BY <1>1, <1>3
     DEF Reader, GetcharCheck, GetcharLoad, GetcharRelease, DevReadEnter, decoderVars, inputHistory
<1>4. CASE UNCHANGED vars
  BY <1>1, <1>4 DEF vars, decoderVars, inputHistory
<1> QED
  BY <1>2, <1>3, <1>4 DEF Next

(* What the handler reads of the shifts is one of the readings allowed: the  *)
(* bytes right after a shift are those under one less those it is held over. *)
LEMMA TellsDecodes == KInv /\ TInv => DecodesStream
<1> SUFFICES ASSUME KInv, TInv PROVE DecodesStream
  OBVIOUS
<1>1. sent \in Seq(Scancodes) /\ DOMAIN sent = 1 .. Len(sent) /\ Len(sent) \in Nat
  BY KeptFacts, LenProperties
<1>2. PICK lost \in SUBSET DOMAIN sent :
        Cardinality(lost) = refused /\ Spells(accepted, sent, Fresh(sent), lost)
  BY <1>1 DEF TInv, QueueTells
<1>3. ASSUME NEW i \in 1 .. Len(sent), AfterShift(sent, i) PROVE ShiftHeld(sent, i)
  BY <1>3 DEF AfterShift, ShiftHeld
<1>4. Held(sent) \ HeldOver(sent) = Fresh(sent)
  BY <1>1, <1>3 DEF Held, HeldOver, Fresh
<1> QED
  BY <1>2, <1>4 DEF DecodesStream

(* For any tables and however prefixes, releases and shifts are mixed, what  *)
(* is queued is what the bytes mean, less the keys a full ring refused: no   *)
(* half of an extended key is a character, the first key under a held shift  *)
(* is shifted and none without one is, whatever was refused before it        *)
(* (keyboard.c:87-132).                                                      *)
THEOREM KeyboardDecodesStream == Spec => []DecodesStream
<1>1. Init => KInv /\ TInv
  BY InitKeys, InitTells
<1>2. KInv /\ TInv /\ [Next]_vars => (KInv /\ TInv)'
  BY KeysStep, StepTells
<1> QED
  BY <1>1, <1>2, TellsDecodes, PTL DEF Spec
=============================================================================
