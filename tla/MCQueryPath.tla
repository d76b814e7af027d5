---------------------------- MODULE MCQueryPath ----------------------------
(* Two queries: one that goes to two servers, and one that comes when the   *)
(* aggregator is connected to none.                                         *)
EXTENDS QueryPath
MCFanout == <<2, 0>>
=============================================================================
