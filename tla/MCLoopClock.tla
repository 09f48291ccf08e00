---------------------------- MODULE MCLoopClock ----------------------------
(* Three chapters, short and long frames, two changes of the preference.   *)
EXTENDS LoopClock
=============================================================================
