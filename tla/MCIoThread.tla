----------------------------- MODULE MCIoThread -----------------------------
(***************************************************************************)
(* Instance of IoThread for TLC: the constants are given in IoThread.cfg.  *)
(***************************************************************************)
EXTENDS IoThread

=============================================================================
