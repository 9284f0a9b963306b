---------------------------- MODULE MCPaneStream ----------------------------
(* TLC instances of PaneStream: cells as model values, interchangeable.    *)
EXTENDS PaneStream, TLC

CellSymmetry == Permutations(Cells)
=============================================================================
