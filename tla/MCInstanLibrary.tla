-------------------------- MODULE MCInstanLibrary --------------------------
(* Small instances of InstanLibrary for TLC. *)
EXTENDS InstanLibrary
=============================================================================
