----------------------------- MODULE MCCleaner ------------------------------
(* Small instances of Cleaner for TLC. *)
EXTENDS Cleaner

MCClock == 0..2
=============================================================================
