---------------------------- MODULE BoundedQueue ----------------------------
(***************************************************************************)
(* What include/ring.h promises, without indices or buffer: a first-in     *)
(* first-out queue of at most Capacity values, one producer, one consumer. *)
(* A value that does not fit is refused and nothing already queued is      *)
(* touched; a read of an empty queue answers Nothing and changes nothing.  *)
(***************************************************************************)
EXTENDS Naturals, Sequences

CONSTANTS Values,     (* the bytes that may be queued                      *)
          Nothing,    (* the -1 ring_pop answers when there is nothing     *)
          Capacity    (* how many values fit                               *)

VARIABLES queue,      (* the values queued, oldest first                   *)
          pushOk,     (* the answer of the last completed push             *)
          popResult   (* the answer of the last completed pop              *)

qvars == <<queue, pushOk, popResult>>

QInit ==
  /\ queue = <<>>
  /\ pushOk = TRUE
  /\ popResult = Nothing

Enqueue(v) ==
  /\ Len(queue) < Capacity
  /\ queue' = Append(queue, v)
  /\ pushOk' = TRUE
  /\ UNCHANGED popResult

Refuse ==
  /\ Len(queue) = Capacity
  /\ pushOk' = FALSE
  /\ UNCHANGED <<queue, popResult>>

Dequeue ==
  /\ queue # <<>>
  /\ popResult' = Head(queue)
  /\ queue' = Tail(queue)
  /\ UNCHANGED pushOk

Miss ==
  /\ queue = <<>>
  /\ popResult' = Nothing
  /\ UNCHANGED <<queue, pushOk>>

QNext ==
  \/ \E v \in Values : Enqueue(v)
  \/ Refuse
  \/ Dequeue
  \/ Miss

QSpec == QInit /\ [][QNext]_qvars

=============================================================================
