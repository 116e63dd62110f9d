----------------------------- MODULE MCMigration -----------------------------
(* Migration with each of the scripts.                                     *)
EXTENDS Migration

AllScripts == Names

LowHigh == <<"low", "high">>
OnlyLow == <<"low">>
=============================================================================
