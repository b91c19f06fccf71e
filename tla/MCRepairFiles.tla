---------------------------- MODULE MCRepairFiles ----------------------------
(* Two members: one that is always there and the policy.                     *)
EXTENDS RepairFiles
=============================================================================
