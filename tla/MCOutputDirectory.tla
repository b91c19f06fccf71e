------------------------- MODULE MCOutputDirectory -------------------------
(* Instances of OutputDirectory for TLC.                                   *)
EXTENDS OutputDirectory
=============================================================================
