----------------------------- MODULE MCSession -----------------------------
(* Small instances of Session: three or four request ids, the sample's and *)
(* the default parse options.                                              *)
EXTENDS Session
=============================================================================
