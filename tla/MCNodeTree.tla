----------------------------- MODULE MCNodeTree -----------------------------
(* Model-checking instance of NodeTree: see MCNodeTree.cfg.                *)
EXTENDS NodeTree, TLC

(* Nodes are interchangeable; the root is not one of them.                 *)
Symmetry == Permutations(Node)
=============================================================================
