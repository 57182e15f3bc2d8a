----------------------------- MODULE MCConsole -----------------------------
(* Two rows of two cells: each newline and each full row meets the end. *)
EXTENDS Console

=============================================================================
