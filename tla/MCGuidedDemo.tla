---------------------------- MODULE MCGuidedDemo ----------------------------
(* Four steps, the last without a signal, as the six of GUIDE_STEPS.       *)
EXTENDS GuidedDemo
=============================================================================
