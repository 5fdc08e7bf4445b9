---------------------------- MODULE MCItemHistory -----------------------------
(***************************************************************************)
(* The instance of ItemHistory: calls of MCItemExchange.                   *)
(***************************************************************************)
EXTENDS ItemHistory, MCItemExchange
=============================================================================
