------------------------ MODULE MCRuntimeReviewRun ------------------------
(* Instances of RuntimeReviewRun for TLC.                                  *)
EXTENDS ReviewRunRecord
=============================================================================
