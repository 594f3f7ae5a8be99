------------------------------ MODULE MCTurns ------------------------------
(* Two of the party against one enemy, with statuses, passives and skills   *)
(* that between them have every kind of effect.                             *)
EXTENDS Turns

MCSeating == <<"a", "b", "x">>
MCTeam == [a |-> "party", b |-> "party", x |-> "enemy"]
MCSpd == [a |-> 2, b |-> 1, x |-> 2]
MCAtk == [a |-> 1, b |-> 2, x |-> 2]

Plain == [category |-> "debuff", fixed |-> FALSE, stopsGain |-> FALSE, stopsLoss |-> FALSE,
          stopsHeal |-> FALSE, stopsCd |-> FALSE, skips |-> FALSE, dot |-> 0, hot |-> 0,
          thorns |-> 0, shield |-> 0, dealt |-> 0, taken |-> 0, wards |-> {},
          grants |-> {}, drops |-> {}, own |-> FALSE, seals |-> {}, lure |-> "none",
          basicOnly |-> FALSE]
MCRow == [wind |-> [Plain EXCEPT !.stopsGain = TRUE, !.stopsCd = TRUE, !.seals = {3}],
          stun |-> [Plain EXCEPT !.skips = TRUE, !.taken = 1],
          burn |-> [Plain EXCEPT !.dot = 1, !.grants = {"stun"}, !.own = TRUE],
          aegis |-> [Plain EXCEPT !.category = "shield", !.shield = 1, !.thorns = 1,
                                  !.wards = {"wind"}, !.drops = {"stun"}],
          rage |-> [Plain EXCEPT !.category = "buff", !.lure = "any", !.basicOnly = TRUE,
                                 !.hot = 1, !.stopsHeal = TRUE]]
MCStatuses == DOMAIN MCRow

Always1 == [is |-> "always"]
To(who) == [who |-> who, n |-> 1]
Rule(on, effect, to, n) ==
  [on |-> on, effect |-> effect, to |-> To(to), n |-> n, when |-> Always1, once |-> FALSE,
   chance |-> FALSE, status |-> Nobody, rounds |-> 0, category |-> "any"]
MCRules ==
  [Counter |-> <<[Rule("damage_taken", "damage", "attacker", 1) EXCEPT !.chance = TRUE]>>,
   Blast   |-> <<Rule("death", "damage", "enemies", 1), Rule("death", "gauge", "fastest", 2)>>,
   Rise    |-> <<[Rule("death", "revive", "fallen", 1) EXCEPT !.once = TRUE],
                 [Rule("after_action", "status", "lowest", 0) EXCEPT
                    !.status = "aegis", !.when = [is |-> "alive_lte", side |-> "ally", n |-> 1]]>>]
MCPassives == DOMAIN MCRules
MCHas == [a |-> <<"Rise">>, b |-> <<"Blast">>, x |-> <<"Counter">>]

MCSkill(group, select, power, swings, effects) ==
  [group |-> group, select |-> select, count |-> 1, power |-> power, swings |-> swings,
   effects |-> effects, cd |-> 0, charge |-> 0]
Apply(s, rounds, to) ==
  [op |-> "apply_status", status |-> s, rounds |-> rounds, to |-> to, requires |-> Always1,
   chance |-> FALSE, removes |-> {}]
Do(op, to) == [op |-> op, to |-> to, requires |-> Always1, chance |-> FALSE, by |-> 2,
               category |-> "any", n |-> 1, kind |-> "atk_bonus"]

Slash == MCSkill("enemy", "count", 1, 1, <<>>)
Mend == MCSkill("ally", "all", 0, 1, <<Do("heal", "allies")>>)
Chase == MCSkill("enemy", "count", 1, 2, <<Apply("stun", 2, "targets")>>)
Storm == MCSkill("enemy", "all", 1, 1,
  <<[Apply("burn", 0, "targets") EXCEPT !.chance = TRUE], Do("attack_rider", "targets"),
    [op |-> "follow_up", skill |-> Chase, needs |-> Nobody, chance |-> TRUE,
     requires |-> [is |-> "killed", want |-> FALSE]]>>)
Gale == MCSkill("enemy", "all", 0, 1,
  <<Apply("wind", 2, "targets"), Do("modify_gauge", "caster"),
    [Do("modify_gauge", "targets") EXCEPT !.by = -2], Apply("rage", 1, "targets")>>)
Seal == MCSkill("enemy", "all", 0, 1,
  <<Apply("wind", Always, "targets"), Apply("wind", 3, "allies")>>)
Mercy == MCSkill("ally", "all", 0, 1,
  <<Do("remove_status", "targets"), Do("heal", "allies"), Do("revive", "targets")>>)

MCSkills ==
  [a |-> <<Mend, [Storm EXCEPT !.cd = 1], [Mercy EXCEPT !.charge = 1]>>,
   b |-> <<Slash, [Gale EXCEPT !.cd = 1]>>,
   x |-> <<Slash, [Storm EXCEPT !.cd = 1], [Seal EXCEPT !.charge = 1]>>]

MCLucks == {[lands |-> {"a", "b", "x"}, pick |-> "a"], [lands |-> {}, pick |-> "x"]}
=============================================================================
