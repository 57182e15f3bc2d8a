------------------------------- MODULE Procfs -------------------------------
(***************************************************************************)
(* kernel/procfs.c: names and texts made from the table of tasks each time *)
(* they are asked for.  Of the table it sees the slots in use and the esp  *)
(* saved in each.  A text is a sequence of items: the wording is left out, *)
(* its length depends on what it says.                                     *)
(***************************************************************************)
EXTENDS Naturals, Sequences

CONSTANTS
  MAX_TASKS,
  Digits,            \* the decimal digits, in order
  PROC_STATUS_MAX,   \* items of the local buffer, its NUL included
  Esps               \* values esp may have, all as long to write

NoTask == "free"

ASSUME ProcfsAssumption ==
  /\ MAX_TASKS \in 1 .. Len(Digits) /\ PROC_STATUS_MAX \in Nat \ {0} /\ Len(Digits) \in Nat \ {0, 1}
  /\ DOMAIN Digits = 1 .. Len(Digits) /\ \A j, k \in DOMAIN Digits : Digits[j] = Digits[k] => j = k
  /\ Esps # {} /\ NoTask \notin Esps

VARIABLE slots       \* the table: each slot free, or with its esp

Slot == 0 .. MAX_TASKS - 1

TaskAttivo(i) == i \in Slot /\ slots[i] # NoTask

(* indice_da_nome: the value of a name of digits, or MAX_TASKS for none.     *)
DigitOf(c) == (CHOOSE k \in DOMAIN Digits : Digits[k] = c) - 1
IsDigit(c) == \E k \in DOMAIN Digits : Digits[k] = c

ValueOf(name) ==
  LET v[n \in 0 .. Len(name)] ==
        IF n = 0 THEN 0
        ELSE IF v[n - 1] >= MAX_TASKS \/ ~IsDigit(name[n]) THEN MAX_TASKS
        ELSE v[n - 1] * Len(Digits) + DigitOf(name[n])
  IN  v[Len(name)]

IndiceDaNome(name) ==
  IF name = <<>> \/ ValueOf(name) >= MAX_TASKS THEN MAX_TASKS ELSE ValueOf(name)

(* root_lookup and task_lookup: the task whose directory, or whose status,   *)
(* a name leads to; MAX_TASKS for none.                                      *)
RootLookup(name) ==
  LET i == IndiceDaNome(name) IN IF TaskAttivo(i) THEN i ELSE MAX_TASKS

PROC_INO_TASK(i) == 2 + i
PROC_INO_STATUS(i) == 2 + MAX_TASKS + i
NameOfTask(i) == <<Digits[i + 1]>>       \* MAX_TASKS is at most 10

(* snprintf: what is in a buffer of a size, and the length that was wanted.  *)
Snprintf(size, s) ==
  [text |-> SubSeq(s, 1, IF Len(s) < size THEN Len(s) ELSE size - 1), wanted |-> Len(s)]

(* The text of a status, for the task that reads it; longer for itself.      *)
StatusText(i, reader, esp) ==
  <<"pid", i, "state">> \o (IF i = reader THEN <<"run", "ning">> ELSE <<"ready">>) \o <<"esp", esp>>

GeneraStatus(i, reader) ==
  LET r == Snprintf(PROC_STATUS_MAX, StatusText(i, reader, slots[i]))
  IN  IF r.wanted >= PROC_STATUS_MAX THEN [ok |-> FALSE, text |-> <<>>]
      ELSE [ok |-> TRUE, text |-> r.text]

(* mistake: every read begins at the start. *)
StatusReadFlat(i, reader, off, n) ==
  LET g == GeneraStatus(i, reader) len == Len(g.text)
  IN  IF ~g.ok THEN [ok |-> FALSE, got |-> <<>>]
      ELSE [ok |-> TRUE, got |-> SubSeq(g.text, 1, IF n < len THEN n ELSE len)]

(* status_read: the slice of a text made now.  A task that is gone reads as  *)
(* an empty file.                                                            *)
StatusRead(i, reader, off, n) ==
  LET g == GeneraStatus(i, reader)
      len == Len(g.text)
      end == IF n > len - off THEN len ELSE off + n
  IN  IF n = 0 \/ ~TaskAttivo(i) THEN [ok |-> TRUE, got |-> <<>>]
      ELSE IF ~g.ok THEN [ok |-> FALSE, got |-> <<>>]
      ELSE [ok |-> TRUE, got |-> IF off >= len THEN <<>> ELSE SubSeq(g.text, off + 1, end)]

(* task_create takes the first free slot; a switch saves an esp.  External   *)
(* here: they are module Scheduler's.                                        *)
TaskCreated(i) ==
  /\ i \in Slot /\ slots[i] = NoTask /\ \A j \in Slot : j < i => slots[j] # NoTask
  /\ \E e \in Esps : slots' = [slots EXCEPT ![i] = e]

EspSaved(i) == TaskAttivo(i) /\ \E e \in Esps : slots' = [slots EXCEPT ![i] = e]

=============================================================================
