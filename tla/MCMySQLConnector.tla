-------------------------- MODULE MCMySQLConnector --------------------------
(* Small instances of MySQLConnector for TLC. *)
EXTENDS MySQLConnector
=============================================================================
