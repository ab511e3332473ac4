----------------------------- MODULE MCBisecting -----------------------------
(* Small instances of Bisecting.                                           *)
EXTENDS Bisecting
=============================================================================
