---------------------------- MODULE MCTbCharging ----------------------------
(***************************************************************************)
(* Instances of TbCharging: one page of two cells, blocks of one or two    *)
(* cycles that branch to the first cell, a cache of two blocks.            *)
(***************************************************************************)
EXTENDS TbCharging

MCBranch == [x \in VCells \X Exits |-> <<x[1][1], 0>>]
MCMaps == [VPages -> PPages]
MCCells == {{o} : o \in Offsets}
MCCost == [c \in VCells |-> 1 + (c[2] % 2)]
=============================================================================
