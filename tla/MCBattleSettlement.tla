------------------------ MODULE MCBattleSettlement ------------------------
(* Few fights on a small account, and a stage of every kind of drop table; *)
(* the fights are interchangeable.                                         *)
EXTENDS BattleSettlement, TLC

FightSymmetry == Permutations(Fights)

Plain == [book |-> "", waves |-> 1, sort |-> 1, double |-> FALSE, farm |-> FALSE,
          reward |-> [what |-> "gem", grade |-> 0, n |-> 1], known |-> <<>>,
          quest |-> FALSE, finale |-> FALSE, difficulty |-> 1, rung |-> 1,
          best |-> <<1, 1>>, worst |-> <<1, 1>>]

MCStages ==
  [daily |-> [Plain EXCEPT !.reward = [what |-> "karma", grade |-> 1, n |-> 1]],
   temple |-> [Plain EXCEPT !.book = "temple", !.waves = 2, !.best = <<2, 0>>,
                            !.worst = <<1, 2>>],
   corridor |-> [Plain EXCEPT !.book = "corridor", !.waves = 2, !.sort = 2],
   story |-> [Plain EXCEPT !.waves = 2, !.quest = TRUE, !.finale = TRUE]]
MCPool == {"orb"}
===========================================================================
