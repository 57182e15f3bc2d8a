-------------------------------- MODULE Ring --------------------------------
(***************************************************************************)
(* kernel/ring.c: the circular buffer between the keyboard interrupt and   *)
(* the shell.  One producer runs ring_push, one consumer runs ring_pop,    *)
(* no lock; the fields are volatile, so each access of the other side's    *)
(* index or of the buffer is a step of its own and the two functions       *)
(* interleave between any two of them.  This is the contract of ring.h     *)
(* ("senza alcun lock"), stronger than what the kernel needs, where the    *)
(* producer is an interrupt handler that the consumer cannot interrupt     *)
(* (module Keyboard).                                                      *)
(***************************************************************************)
EXTENDS Naturals, Sequences

CONSTANTS Values,     (* the bytes that may be queued                      *)
          Nothing,    (* the -1 of ring_pop                                *)
          Size        (* RING_SIZE                                         *)

ASSUME SizeAssumption == Size \in Nat /\ Size >= 2
ASSUME NothingAssumption == Nothing \notin Values

VARIABLES buf, head, tail,   (* struct ring                                *)
          pushPc, pushVal,   (* where ring_push is, and its argument       *)
          popPc, popVal,     (* where ring_pop is, and its local v         *)
          pushOk, popResult  (* what the last completed call returned      *)

ringVars == <<buf, head, tail>>
producerVars == <<pushPc, pushVal, pushOk>>
consumerVars == <<popPc, popVal, popResult>>
vars == <<buf, head, tail, pushPc, pushVal, popPc, popVal, pushOk, popResult>>

Slots == 0 .. Size - 1

(* (i + 1) % RING_SIZE, the only arithmetic the indices ever undergo *)
NextSlot(i) == (i + 1) % Size

(* mistake: the index compared before it wraps *)
FullUnwrapped == head + 1 = tail

Full  == NextSlot(head) = tail
Empty == head = tail

(* ring_init sets the indices and leaves buf as it finds it *)
RingInit ==
  /\ buf \in [Slots -> Values]
  /\ head = 0
  /\ tail = 0

Init ==
  /\ RingInit
  /\ pushPc = "idle" /\ pushVal = Nothing /\ pushOk = TRUE
  /\ popPc = "idle" /\ popVal = Nothing /\ popResult = Nothing

-----------------------------------------------------------------------------
(* ring_push: compare with tail, store into the free slot, publish head *)

(* mistake: stores without asking whether there is room *)
PushCheckBlind(v) ==
  /\ pushPc = "idle"
  /\ pushPc' = "store"
  /\ pushVal' = v
  /\ UNCHANGED <<ringVars, pushOk, consumerVars>>

PushCheck(v) ==
  /\ pushPc = "idle"
  /\ \/ /\ Full
        /\ pushOk' = FALSE
        /\ UNCHANGED <<pushPc, pushVal>>
     \/ /\ ~Full
        /\ pushPc' = "store"
        /\ pushVal' = v
        /\ UNCHANGED pushOk
  /\ UNCHANGED <<ringVars, consumerVars>>

PushStore ==
  /\ pushPc = "store"
  /\ buf' = [buf EXCEPT ![head] = pushVal]
  /\ pushPc' = "publish"
  /\ UNCHANGED <<head, tail, pushVal, pushOk, consumerVars>>

PushPublish ==
  /\ pushPc = "publish"
  /\ head' = NextSlot(head)
  /\ pushPc' = "idle"
  /\ pushVal' = Nothing
  /\ pushOk' = TRUE
  /\ UNCHANGED <<buf, tail, consumerVars>>

-----------------------------------------------------------------------------
(* ring_pop: compare with head, load the oldest slot, give it back *)

PopCheck ==
  /\ popPc = "idle"
  /\ \/ /\ Empty
        /\ popResult' = Nothing
        /\ UNCHANGED <<popPc, popVal>>
     \/ /\ ~Empty
        /\ popPc' = "load"
        /\ UNCHANGED <<popVal, popResult>>
  /\ UNCHANGED <<ringVars, producerVars>>

(* mistake: reads with the index already advanced *)
PopLoadNext ==
  /\ popPc = "load"
  /\ popVal' = buf[NextSlot(tail)]
  /\ popPc' = "release"
  /\ UNCHANGED <<ringVars, popResult, producerVars>>

PopLoad ==
  /\ popPc = "load"
  /\ popVal' = buf[tail]
  /\ popPc' = "release"
  /\ UNCHANGED <<ringVars, popResult, producerVars>>

PopRelease ==
  /\ popPc = "release"
  /\ tail' = NextSlot(tail)
  /\ popResult' = popVal
  /\ popVal' = Nothing
  /\ popPc' = "idle"
  /\ UNCHANGED <<buf, head, producerVars>>

-----------------------------------------------------------------------------

Push == (\E v \in Values : PushCheck(v)) \/ PushStore \/ PushPublish
Pop  == PopCheck \/ PopLoad \/ PopRelease

Next == Push \/ Pop

Spec == Init /\ [][Next]_vars

-----------------------------------------------------------------------------

TypeOK ==
  /\ buf \in [Slots -> Values]
  /\ head \in Slots
  /\ tail \in Slots
  /\ pushPc \in {"idle", "store", "publish"}
  /\ popPc \in {"idle", "load", "release"}
  /\ pushVal \in Values \cup {Nothing}
  /\ popVal \in Values \cup {Nothing}
  /\ pushOk \in BOOLEAN
  /\ popResult \in Values \cup {Nothing}

(* The producer never stores into the slot the consumer is reading, though *)
(* each decided to go on from an index the other may have moved since.     *)
NoSlotRace == pushPc = "store" /\ popPc = "load" => head # tail

(* What the check established still holds when it is used: the other side  *)
(* can only have made more room, or more to read.                          *)
CheckStillTrue ==
  /\ pushPc # "idle" => ~Full
  /\ popPc # "idle" => ~Empty

(* The value in hand is the one in the slot, until the slot is given back. *)
InHand ==
  /\ pushPc # "idle" => pushVal \in Values
  /\ pushPc = "publish" => buf[head] = pushVal
  /\ popPc = "release" => popVal = buf[tail]

(* The inductive invariant: whatever the interleaving, what a side decided *)
(* on at its check is still so when it acts on it.                         *)
IInv == TypeOK /\ CheckStillTrue /\ InHand

-----------------------------------------------------------------------------
(* The queue the buffer stands for: from tail up to head, wrapping around. *)

Count == IF tail <= head THEN head - tail ELSE Size - tail + head

(* the slot k places after tail *)
SlotAt(k) == IF tail + k < Size THEN tail + k ELSE tail + k - Size

Contents == [k \in 1 .. Count |-> buf[SlotAt(k - 1)]]

Abstract == INSTANCE BoundedQueue
              WITH queue <- Contents, Capacity <- Size - 1

(* Seen from its two callers, ring.c is the bounded first-in first-out     *)
(* queue of ring.h: nothing is lost once accepted, duplicated, reordered   *)
(* or overwritten, a full ring refuses, and only an empty one answers -1.  *)
ImplementsQueue == Abstract!QSpec

=============================================================================
