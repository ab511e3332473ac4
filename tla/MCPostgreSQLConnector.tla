------------------------ MODULE MCPostgreSQLConnector ------------------------
(* Small instances of PostgreSQLConnector.                                 *)
EXTENDS PostgreSQLConnector
=============================================================================
