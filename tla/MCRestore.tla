----------------------------- MODULE MCRestore ------------------------------
(* Restore on small instances.                                             *)
EXTENDS Restore

BothBuilds     == BOOLEAN
LibPthreadOnly == {TRUE}
=============================================================================
