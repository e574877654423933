----------------------------- MODULE MCMetadata -----------------------------
(* Model-checking instance of Metadata: see MCMetadata.cfg.                *)
EXTENDS Metadata, TLC

(* Sessions and names are interchangeable.                                 *)
Symmetry == Permutations(Upload) \cup Permutations(Slot)
=============================================================================
