---------------------------- MODULE Descriptors -----------------------------
(***************************************************************************)
(* What the open files of the VFS promise a task, with no global table:    *)
(* every task has a row of descriptors of its own, and what stands behind  *)
(* one changes only by a call on that descriptor.                          *)
(***************************************************************************)
EXTENDS Naturals

CONSTANTS Tasks, Fds, Inodes, Flags, Offsets, Closed

VARIABLE open              (* [Tasks -> [Fds -> file or Closed]]           *)

DInit == open = [t \in Tasks |-> [d \in Fds |-> Closed]]

(* the lowest closed descriptor starts at position 0 *)
DOpen(t, d, i, fl) ==
  /\ open[t][d] = Closed
  /\ \A e \in Fds : e < d => open[t][e] # Closed
  /\ open' = [open EXCEPT ![t][d] = [inode |-> i, off |-> 0, flags |-> fl]]

DMove(t, d, o) ==
  /\ open[t][d] # Closed
  /\ open' = [open EXCEPT ![t][d].off = o]

DClose(t, d) ==
  /\ open[t][d] # Closed
  /\ open' = [open EXCEPT ![t][d] = Closed]

DNext ==
  \E t \in Tasks, d \in Fds :
    \/ \E i \in Inodes, fl \in Flags : DOpen(t, d, i, fl)
    \/ \E o \in Offsets : DMove(t, d, o)
    \/ DClose(t, d)

DSpec == DInit /\ [][DNext]_open

=============================================================================
