---------------------------- MODULE MCRdmaStream ----------------------------
(* Images of one byte to three full chunks and one byte.                   *)
EXTENDS RdmaStream
=============================================================================
