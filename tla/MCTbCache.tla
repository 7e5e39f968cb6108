------------------------------ MODULE MCTbCache ------------------------------
(***************************************************************************)
(* TbCache with two virtual and two physical pages of two cells, aliases,  *)
(* blocks that span pages and devices that write whole pages.  Exit 0      *)
(* branches to the other cell of the page, exit 1 back to the block        *)
(* itself, so that chains have cycles of one and of two blocks.            *)
(***************************************************************************)
EXTENDS TbCache, TLC

MCBranch == [x \in VCells \X Exits |->
               IF x[2] = 0 THEN <<x[1][1], (x[1][2] + 1) % PageSize>> ELSE x[1]]
MCSymmetry == Permutations(PPages)
MCAllMaps == [VPages -> PPages]
MCPage == {Offsets}
=============================================================================
