-------------------------- MODULE MCSQLiteConnector --------------------------
(* A small instance of SQLiteConnector: enough calls that a child survives *)
(* one, is killed in the next and replaced in the third.                   *)
EXTENDS SQLiteConnector
=============================================================================
