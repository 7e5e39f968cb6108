----------------------------- MODULE MCMainLoop -----------------------------
(***************************************************************************)
(* Instances of MainLoop: three kinds of request and up to three kicks, or *)
(* no request and one alarm.                                               *)
(***************************************************************************)
EXTENDS MainLoop
=============================================================================
