---------------------------- MODULE MCLimitList ----------------------------
(* LimitList with four orders: enough for an order with two on either side *)
(* of which one is no end of the list.                                     *)
EXTENDS LimitList
=============================================================================
