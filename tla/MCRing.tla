------------------------------- MODULE MCRing -------------------------------
(* Ring on a buffer of four slots and two values. *)
EXTENDS Ring

=============================================================================
