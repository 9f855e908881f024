---------------------------- MODULE MCHandlePool ----------------------------
(* A small instance of HandlePool for TLC. *)
EXTENDS HandlePool, TLC
=============================================================================
