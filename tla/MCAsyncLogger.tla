--------------------------- MODULE MCAsyncLogger ---------------------------
(* AsyncLogger on small instances; the constants are in the .cfg files.    *)
EXTENDS AsyncLogger
=============================================================================
