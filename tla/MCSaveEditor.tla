---------------------------- MODULE MCSaveEditor ----------------------------
(* Instances of SaveEditor for TLC.                                        *)
EXTENDS SaveEditor, TLC

Symmetry == Permutations(Conns) \cup Permutations(Effects)
              \cup Permutations(Ids)
=============================================================================
