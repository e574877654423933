---------------------------- MODULE MCRateLimit -----------------------------
(* Model-checking instance of RateLimit: see MCRateLimit.cfg.              *)
EXTENDS RateLimit, TLC

(* Requests are interchangeable, and so are clients.                       *)
Symmetry == Permutations(Request) \cup Permutations(Client)
=============================================================================
