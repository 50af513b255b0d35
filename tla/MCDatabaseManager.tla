------------------------- MODULE MCDatabaseManager -------------------------
(* DatabaseManager on small instances; the other constants are in the .cfg *)
(* files.                                                                  *)
EXTENDS DatabaseManager

MCItems == Lines
MCProducers == Loggers \cup {"orderbook"}
=============================================================================
