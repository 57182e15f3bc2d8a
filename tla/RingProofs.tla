----------------------------- MODULE RingProofs -----------------------------
EXTENDS Ring, SequenceTheorems, TLAPS

(* Advancing an index of the ring is adding one, except past the last slot. *)
LEMMA NextSlotValue ==
  ASSUME NEW i \in Slots
  PROVE  /\ NextSlot(i) \in Slots
         /\ NextSlot(i) = IF i = Size - 1 THEN 0 ELSE i + 1
<1>1. CASE i = Size - 1
  <2>1. i + 1 = Size
    BY <1>1, SizeAssumption DEF Slots
  <2>2. Size % Size = 0
    BY SizeAssumption, SMTT(30)
  <2>3. QED
    BY <1>1, <2>1, <2>2, SizeAssumption DEF Slots, NextSlot
<1>2. CASE i # Size - 1
  <2>1. i + 1 \in Nat /\ i + 1 < Size
    BY <1>2, SizeAssumption DEF Slots
  <2>2. (i + 1) % Size = i + 1
    BY <2>1, SizeAssumption, SMTT(30)
  <2>3. QED
    BY <1>2, <2>1, <2>2, SizeAssumption DEF Slots, NextSlot
<1>3. QED
  BY <1>1, <1>2

(* Arithmetic of the distance from tail to head. *)
LEMMA CountFacts ==
  ASSUME head \in Slots, tail \in Slots
  PROVE  /\ Count \in 0 .. Size - 1
         /\ Count = 0 <=> Empty
         /\ Count = Size - 1 <=> Full
         /\ \A k \in 0 .. Size - 1 : SlotAt(k) \in Slots
         /\ SlotAt(0) = tail
         /\ SlotAt(Count) = head
         /\ \A k \in 0 .. Count - 1 : SlotAt(k) # head
<1>1. NextSlot(head) = IF head = Size - 1 THEN 0 ELSE head + 1
  BY NextSlotValue
<1>2. QED
  BY <1>1, SizeAssumption DEF Count, Empty, Full, SlotAt, Slots

(* ring_init establishes the inductive invariant. *)
LEMMA InitIInv == Init => IInv
BY SizeAssumption DEF Init, RingInit, IInv, TypeOK, CheckStillTrue, InHand, Slots

(* Every step of ring_push and of ring_pop preserves it: the other side can *)
(* only have made more room, or more to read, since the check.             *)
LEMMA NextIInv == IInv /\ [Next]_vars => IInv'
<1> SUFFICES ASSUME IInv, [Next]_vars PROVE IInv'
  OBVIOUS
<1> USE DEF IInv, TypeOK, CheckStillTrue, InHand, ringVars, producerVars,
            consumerVars
<1>0. /\ NextSlot(head) \in Slots
      /\ NextSlot(tail) \in Slots
      /\ NextSlot(head) = IF head = Size - 1 THEN 0 ELSE head + 1
      /\ NextSlot(tail) = IF tail = Size - 1 THEN 0 ELSE tail + 1
  BY NextSlotValue
<1>1. ASSUME NEW v \in Values, PushCheck(v) PROVE IInv'
  BY <1>1 DEF PushCheck, Full, Empty
<1>2. CASE PushStore
  <2>1. popPc # "idle" => head # tail
    BY DEF Empty
  <2>2. QED
    BY <1>2, <2>1 DEF PushStore, Full, Empty
<1>3. CASE PushPublish
  <2>1. head' \in Slots /\ tail' = tail /\ buf' = buf
    BY <1>3, <1>0 DEF PushPublish
  <2>2. popPc # "idle" => head' # tail'
    BY <1>3 DEF PushPublish, Full
  <2>3. QED
    BY <1>3, <2>1, <2>2 DEF PushPublish, Full, Empty
<1>4. CASE PopCheck
  BY <1>4 DEF PopCheck, Full, Empty
<1>5. CASE PopLoad
  BY <1>5 DEF PopLoad, Full, Empty
<1>6. CASE PopRelease
  <2>1. tail' \in Slots /\ head' = head /\ buf' = buf /\ pushPc' = pushPc
    BY <1>6, <1>0 DEF PopRelease
  <2>2. tail # head
    BY <1>6 DEF PopRelease, Empty
  <2>3. NextSlot(head) # NextSlot(tail)
    BY <1>0, <2>2, SizeAssumption DEF Slots
  <2>4. pushPc' # "idle" => ~Full'
    BY <1>6, <2>1, <2>3 DEF PopRelease, Full, NextSlot
  <2>5. QED
    BY <1>6, <2>1, <2>4 DEF PopRelease
<1>7. CASE UNCHANGED vars
  BY <1>7 DEF vars, Full, Empty, NextSlot
<1>8. QED
  BY <1>1, <1>2, <1>3, <1>4, <1>5, <1>6, <1>7 DEF Next, Push, Pop

(* The ring never holds an index out of the buffer, and what either side   *)
(* learnt at its check it may still rely on, for every size and value set. *)
THEOREM RingInvariant == Spec => []IInv
<1>1. Spec => []IInv
  BY InitIInv, NextIInv, PTL DEF Spec
<1>2. QED
  BY <1>1

(* No store of the producer hits a slot the consumer is reading. *)
THEOREM RingNoSlotRace == Spec => []NoSlotRace
<1>1. IInv => NoSlotRace
  BY DEF IInv, CheckStillTrue, NoSlotRace, Empty
<1>2. Spec => []IInv
  BY InitIInv, NextIInv, PTL DEF Spec
<1>3. QED
  BY <1>1, <1>2, PTL

-----------------------------------------------------------------------------
(* Refinement: the steps that reach memory outside the slot being handed   *)
(* over move the abstract queue, all the others are invisible.             *)

(* A queue read off the buffer is a sequence of values. *)
LEMMA ContentsType ==
  ASSUME TypeOK
  PROVE  /\ Contents \in Seq(Values)
         /\ Len(Contents) = Count
         /\ Count \in 0 .. Size - 1
         /\ Empty <=> Contents = <<>>
<1>1. Count \in Nat /\ Count \in 0 .. Size - 1 /\ (Count = 0 <=> Empty)
  BY CountFacts DEF TypeOK
<1>2. ASSUME NEW k \in 1 .. Count PROVE buf[SlotAt(k - 1)] \in Values
  <2>1. k - 1 \in 0 .. Size - 1
    BY <1>1, SizeAssumption
  <2>2. SlotAt(k - 1) \in Slots
    BY <2>1, CountFacts DEF TypeOK
  <2>3. QED
    BY <2>2 DEF TypeOK
<1>3. Contents \in [1 .. Count -> Values]
  BY <1>2 DEF Contents
<1>4. Contents \in Seq(Values) /\ Len(Contents) = Count
  BY <1>1, <1>3
<1>5. Empty <=> Contents = <<>>
  BY <1>1, <1>4
<1>6. QED
  BY <1>1, <1>4, <1>5

(* Publishing head appends the value already stored there. *)
LEMMA PublishAppends ==
  ASSUME IInv, PushPublish
  PROVE  Contents' = Append(Contents, buf[head]) /\ Len(Contents) < Size - 1
<1> USE DEF IInv, TypeOK, CheckStillTrue
<1>1. ~Full /\ buf' = buf /\ tail' = tail /\ head' = NextSlot(head)
  BY DEF PushPublish
<1>2. NextSlot(head) \in Slots
      /\ NextSlot(head) = IF head = Size - 1 THEN 0 ELSE head + 1
  BY NextSlotValue
<1>3. Count \in 0 .. Size - 1 /\ Count # Size - 1 /\ SlotAt(Count) = head
  BY <1>1, CountFacts
<1>4. Count' = Count + 1
  BY <1>1, <1>2, SizeAssumption DEF Count, Full, Slots
<1>5. \A k : SlotAt(k)' = SlotAt(k)
  BY <1>1 DEF SlotAt
<1>6. Contents' = [k \in 1 .. Count + 1 |-> buf[SlotAt(k - 1)]]
  BY <1>1, <1>4, <1>5 DEF Contents
<1>7. Contents \in Seq(Values) /\ Len(Contents) = Count
  BY ContentsType
<1>8. Append(Contents, buf[head]) =
        [k \in 1 .. Count + 1 |-> IF k = Count + 1 THEN buf[head] ELSE Contents[k]]
  BY <1>3, <1>7
<1>9. ASSUME NEW k \in 1 .. Count + 1
      PROVE  buf[SlotAt(k - 1)] = IF k = Count + 1 THEN buf[head] ELSE Contents[k]
  <2>1. CASE k = Count + 1
    BY <2>1, <1>3
  <2>2. CASE k # Count + 1
    BY <2>2, <1>3 DEF Contents
  <2>3. QED
    BY <2>1, <2>2
<1>10. [k \in 1 .. Count + 1 |-> buf[SlotAt(k - 1)]] =
        [k \in 1 .. Count + 1 |-> IF k = Count + 1 THEN buf[head] ELSE Contents[k]]
  BY <1>9, Zenon
<1>11. Len(Contents) < Size - 1
  BY <1>3, <1>7, SizeAssumption
<1>12. QED
  BY <1>6, <1>8, <1>10, <1>11, Zenon

(* Storing into the free slot is not visible through the queue. *)
LEMMA StoreInvisible ==
  ASSUME IInv, PushStore
  PROVE  Contents' = Contents
<1> USE DEF IInv, TypeOK
<1>1. buf' = [buf EXCEPT ![head] = pushVal] /\ tail' = tail /\ head' = head
  BY DEF PushStore
<1>2. Count' = Count /\ \A k : SlotAt(k)' = SlotAt(k)
  BY <1>1 DEF Count, SlotAt
<1>3. ASSUME NEW k \in 1 .. Count
      PROVE  buf'[SlotAt(k - 1)] = buf[SlotAt(k - 1)]
  <2>1. Count \in 0 .. Size - 1
    BY CountFacts
  <2>2. k - 1 \in 0 .. Count - 1 /\ k - 1 \in 0 .. Size - 1
    BY <2>1, SizeAssumption
  <2>3. SlotAt(k - 1) \in Slots /\ SlotAt(k - 1) # head
    BY <2>2, CountFacts
  <2>4. QED
    BY <1>1, <2>3
<1>4. Contents' = [k \in 1 .. Count |-> buf'[SlotAt(k - 1)]]
  BY <1>2 DEF Contents
<1>5. QED
  BY <1>3, <1>4 DEF Contents

(* Releasing tail removes the oldest value and no other. *)
LEMMA ReleaseDropsHead ==
  ASSUME IInv, PopRelease
  PROVE  /\ Contents # <<>>
         /\ Head(Contents) = buf[tail]
         /\ Contents' = Tail(Contents)
<1> USE DEF IInv, TypeOK, CheckStillTrue
<1>1. ~Empty /\ buf' = buf /\ head' = head /\ tail' = NextSlot(tail)
  BY DEF PopRelease
<1>2. NextSlot(tail) \in Slots
      /\ NextSlot(tail) = IF tail = Size - 1 THEN 0 ELSE tail + 1
  BY NextSlotValue
<1>3. Count \in 1 .. Size - 1 /\ SlotAt(0) = tail
  BY <1>1, CountFacts
<1>4. Count' = Count - 1
  BY <1>1, <1>2, SizeAssumption DEF Count, Empty, Slots
<1>5. ASSUME NEW k \in 1 .. Count - 1 PROVE SlotAt(k - 1)' = SlotAt(k)
  BY <1>1, <1>2, <1>3, SizeAssumption DEF SlotAt, Slots
<1>6. Contents' = [k \in 1 .. Count - 1 |-> buf[SlotAt(k)]]
  <2>1. Contents' = [k \in 1 .. Count' |-> buf'[SlotAt(k - 1)']]
    BY DEF Contents
  <2>2. QED
    BY <2>1, <1>1, <1>4, <1>5
<1>7. Contents \in Seq(Values) /\ Len(Contents) = Count /\ Contents # <<>>
  BY <1>1, ContentsType
<1>8. /\ Tail(Contents) \in Seq(Values)
      /\ Len(Tail(Contents)) = Count - 1
      /\ \A k \in 1 .. Count - 1 : Tail(Contents)[k] = Contents[k + 1]
  BY <1>7, HeadTailProperties
<1>9. ASSUME NEW k \in 1 .. Count - 1 PROVE Contents[k + 1] = buf[SlotAt(k)]
  BY <1>3 DEF Contents
<1>10. Tail(Contents) = [k \in 1 .. Count - 1 |-> buf[SlotAt(k)]]
  <2> DEFINE u == [k \in 1 .. Count - 1 |-> buf[SlotAt(k)]]
  <2>1. ASSUME NEW k \in 1 .. Count - 1 PROVE Tail(Contents)[k] = u[k]
    BY <1>8, <1>9
  <2>2. ASSUME NEW k \in 1 .. Count - 1 PROVE u[k] \in Values
    <3>1. k + 1 \in 1 .. Len(Contents)
      BY <1>3, <1>7
    <3>2. Contents[k + 1] \in Values
      BY <1>7, <3>1, ElementOfSeq
    <3>3. QED
      BY <1>9, <3>2
  <2>3. u \in Seq(Values) /\ Len(u) = Count - 1
    BY <1>3, <2>2
  <2> HIDE DEF u
  <2>4. QED
    BY <1>8, <2>1, <2>3, SeqEqual DEF u
<1>11. Head(Contents) = buf[tail]
  BY <1>3, <1>7 DEF Contents
<1>12. QED
  BY <1>6, <1>7, <1>10, <1>11

(* ring_init hands over an empty queue, whatever buf holds. *)
LEMMA InitRefines == Init => Abstract!QInit
<1> SUFFICES ASSUME Init PROVE Abstract!QInit
  OBVIOUS
<1>1. Count = 0
  BY SizeAssumption DEF Init, RingInit, Count
<1>2. Contents = <<>>
  BY <1>1 DEF Contents
<1>3. QED
  BY <1>2 DEF Init, Abstract!QInit

(* Every step of the two functions is a step of the queue, or none. *)
LEMMA StepRefines ==
  IInv /\ [Next]_vars => [Abstract!QNext]_(Abstract!qvars)
<1> SUFFICES ASSUME IInv, [Next]_vars
             PROVE  [Abstract!QNext]_(Abstract!qvars)
  OBVIOUS
<1> USE DEF ringVars, producerVars, consumerVars, Abstract!qvars
<1>0. /\ Contents \in Seq(Values)
      /\ Len(Contents) = Count
      /\ Empty <=> Contents = <<>>
      /\ Count = Size - 1 <=> Full
  BY ContentsType, CountFacts DEF IInv, TypeOK
<1>1. ASSUME UNCHANGED ringVars PROVE Contents' = Contents
  BY <1>1 DEF Contents, Count, SlotAt
<1>2. ASSUME NEW v \in Values, PushCheck(v)
      PROVE  [Abstract!QNext]_(Abstract!qvars)
  <2>1. Contents' = Contents /\ popResult' = popResult
    BY <1>1, <1>2 DEF PushCheck
  <2>2. CASE Full
    BY <1>0, <1>2, <2>1, <2>2 DEF PushCheck, Abstract!QNext, Abstract!Refuse
  <2>3. CASE ~Full
    BY <1>2, <2>1, <2>3 DEF PushCheck
  <2>4. QED
    BY <2>2, <2>3
<1>3. CASE PushStore
  BY <1>3, StoreInvisible DEF PushStore
<1>4. CASE PushPublish
  <2>1. Contents' = Append(Contents, buf[head]) /\ Len(Contents) < Size - 1
    BY <1>4, PublishAppends
  <2>2. buf[head] \in Values
    BY DEF IInv, TypeOK
  <2>3. pushOk' = TRUE /\ popResult' = popResult
    BY <1>4 DEF PushPublish
  <2>4. Abstract!Enqueue(buf[head])
    BY <2>1, <2>3 DEF Abstract!Enqueue
  <2>5. QED
    BY <2>2, <2>4 DEF Abstract!QNext
<1>5. CASE PopCheck
  <2>1. Contents' = Contents /\ pushOk' = pushOk
    BY <1>1, <1>5 DEF PopCheck
  <2>2. CASE Empty
    BY <1>0, <1>5, <2>1, <2>2 DEF PopCheck, Abstract!QNext, Abstract!Miss
  <2>3. CASE ~Empty
    BY <1>5, <2>1, <2>3 DEF PopCheck
  <2>4. QED
    BY <2>2, <2>3
<1>6. CASE PopLoad
  BY <1>1, <1>6 DEF PopLoad
<1>7. CASE PopRelease
  <2>1. /\ Contents # <<>>
        /\ Head(Contents) = buf[tail]
        /\ Contents' = Tail(Contents)
    BY <1>7, ReleaseDropsHead
  <2>2. popResult' = buf[tail] /\ pushOk' = pushOk
    BY <1>7 DEF PopRelease, IInv, InHand
  <2>3. QED
    BY <2>1, <2>2 DEF Abstract!QNext, Abstract!Dequeue
<1>8. CASE UNCHANGED vars
  BY <1>1, <1>8 DEF vars
<1>9. QED
  BY <1>2, <1>3, <1>4, <1>5, <1>6, <1>7, <1>8 DEF Next, Push, Pop

(* ring.c implements the bounded queue of ring.h, for every RING_SIZE and  *)
(* every interleaving of one producer with one consumer.                   *)
THEOREM RingImplementsQueue == Spec => ImplementsQueue
<1>1. Spec => []IInv
  BY InitIInv, NextIInv, PTL DEF Spec
<1>2. QED
  BY <1>1, InitRefines, StepRefines, PTL DEF Spec, ImplementsQueue, Abstract!QSpec

=============================================================================
