------------------------------ MODULE MCDevIo ------------------------------
(* DevIo over Ata for TLC. *)
EXTENDS DevIo, TLC
=============================================================================
