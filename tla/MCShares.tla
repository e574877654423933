------------------------------ MODULE MCShares -------------------------------
(* Model-checking instance of Shares: see MCShares.cfg.                    *)
EXTENDS Shares, TLC

Symmetry == Permutations(User) \cup Permutations(Session) \cup Permutations(Request)
=============================================================================
