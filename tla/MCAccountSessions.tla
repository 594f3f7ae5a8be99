-------------------------- MODULE MCAccountSessions -------------------------
(* Instances of AccountSessions for TLC.                                   *)
EXTENDS AccountSessions, TLC

(* Threads, changes and identities are interchangeable (safety only).      *)
Symmetry == Permutations(Conns) \cup Permutations(Effects)
              \cup Permutations(Ids)
=============================================================================
