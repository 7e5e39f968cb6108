----------------------------- MODULE MCPosixAio -----------------------------
(***************************************************************************)
(* PosixAio with as many requests in flight as two slots and one nested    *)
(* synchronous call allow, on two threads.                                 *)
(***************************************************************************)
EXTENDS PosixAio
=============================================================================
