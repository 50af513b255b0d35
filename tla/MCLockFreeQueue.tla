-------------------------- MODULE MCLockFreeQueue --------------------------
(* LockFreeQueue on small instances; the constants are in the .cfg files.  *)
EXTENDS LockFreeQueue
=============================================================================
