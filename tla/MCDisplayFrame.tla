--------------------------- MODULE MCDisplayFrame ---------------------------
(* Small instances of DisplayFrame for TLC: the cfg files give the constants. *)
EXTENDS DisplayFrame
=============================================================================
