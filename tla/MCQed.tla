------------------------------- MODULE MCQed --------------------------------
(***************************************************************************)
(* Qed with two L2 tables of two clusters of two sectors, a cache for one  *)
(* of them, and requests that share a cluster, span clusters or cross from *)
(* one table to the next.                                                  *)
(***************************************************************************)
EXTENDS Qed

MCImages ==
  {<<FALSE, "writeback", 2>>, <<TRUE, "writeback", 0>>,
   <<FALSE, "writethrough", 0>>, <<TRUE, "writethrough", 2>>}

MCExtents ==
  {<<"write", 0, 1>>, <<"write", 1, 2>>, <<"write", 1, 3>>, <<"read", 3, 5>>}
=============================================================================
