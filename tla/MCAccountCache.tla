--------------------------- MODULE MCAccountCache ---------------------------
(* Model-checking instance of AccountCache: backends with the same protocol  *)
(* or their own, with the same settings or conflicting ones.                 *)
EXTENDS AccountCache, TLC

Symmetry == Permutations(Threads) \cup Permutations(Mailboxes)
            \cup Permutations(Protocols) \cup Permutations(Settings)
=============================================================================
