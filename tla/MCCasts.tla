------------------------------ MODULE MCCasts ------------------------------
(* The roster and the pieces its casts wear share no step that either      *)
(* module does not have, so a behaviour follows one or the other.          *)
(*                                                                         *)
(* Pieces: two casts; two fusable mirrors of one character and one         *)
(* internal one that an old save still wears; two pacts; a starshard.      *)
(* Roster: a starter that the tutorial boosts, and a character of the same *)
(* group and rarity whose copies can be eaten by each other.               *)
EXTENDS Gear, Roster, TLC

VARIABLE followed

allVars == <<followed, gearVars, vars>>

CastsInit == followed \in {"pieces", "roster"} /\ GearInit /\ Init

CastsNext ==
  /\ UNCHANGED followed
  /\ \/ followed = "pieces" /\ GearNext /\ UNCHANGED vars
     \/ followed = "roster" /\ Next /\ UNCHANGED gearVars

CastsSpec == CastsInit /\ [][CastsNext]_allVars

Row(st, slot, owner, fus, int) ==
  [storage |-> st, slot |-> slot, owner |-> owner, fusable |-> fus, internal |-> int]
MCKinds == {"left", "right", "ghost", "pact", "shard"}
MCKindRow ==
  [k \in MCKinds |->
     CASE k = "left" -> Row("mirror", 2, 1, TRUE, FALSE)
       [] k = "right" -> Row("mirror", 3, 1, TRUE, FALSE)
       [] k = "ghost" -> Row("mirror", 2, 2, FALSE, TRUE)
       [] k = "pact" -> Row("pact", 0, 0, FALSE, FALSE)
       [] k = "shard" -> Row("rune", 0, 0, FALSE, FALSE)]
Piece(u, k) == [uid |-> u, kind |-> k, lv |-> 0, lock |-> FALSE]
MCOldSave ==
  [bag |-> [s \in Storages |-> IF s = "rune" THEN <<>>
                               ELSE IF s = "mirror" THEN 1 :> Piece(1, "ghost")
                               ELSE (1 :> Piece(1, "pact")) @@ (2 :> Piece(2, "pact"))],
   worn |-> [c \in {1, 2} |-> IF c = 1 THEN [Bare EXCEPT ![2] = <<"mirror", 1>>] ELSE Bare]]

MCTeam == <<"lucifer">>
MCCharRow ==
  [c \in {"lucifer", "page"} |->
     [rarity |-> 5, star |-> IF c = "page" THEN 2 ELSE 1, bookside |-> c = "page", group |-> 1,
      job |-> IF c = "page" THEN 1 ELSE 2]]
=============================================================================
