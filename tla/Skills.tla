------------------------------- MODULE Skills -------------------------------
(***************************************************************************)
(* One cast of a skill: engine/core.py executes it on the units and        *)
(* collects an outcome, engine/wire.py lays the outcome out as the groups  *)
(* of rows the client's cinematic consumes.                                *)
(***************************************************************************)
EXTENDS Passives

MaxFollowDepth == 4

-----------------------------------------------------------------------------
(* Targets and the outcome under construction.                             *)

Eligible(f, caster, u, group) ==
  CASE group = "enemy" -> Foes(caster, u) /\ Up(f, u)
    [] group = "ally" -> ~Foes(caster, u) /\ Up(f, u)
    [] group = "dead_ally" -> ~Foes(caster, u) /\ ~Up(f, u)
    [] group = "dead_enemy" -> Foes(caster, u) /\ ~Up(f, u)

\* The unit the player tapped leads a count when it is eligible at all; a
\* skill of the self_plus kind has its caster first, eligible or not.
Targets(f, caster, skill, chosen, luck) ==
  LET pool == Seated(LAMBDA u : Eligible(f, caster, u, skill.group))
      others == SelectSeq(pool, LAMBDA u : u # caster)
      led == SelectSeq(pool, LAMBDA u : u = chosen) \o SelectSeq(pool, LAMBDA u : u # chosen)
  IN CASE pool = <<>> \/ skill.select = "none" -> <<>>
       [] pool # <<>> /\ skill.select = "all" -> pool
       [] pool # <<>> /\ skill.select = "all_except_self" -> others
       [] pool # <<>> /\ skill.select = "self_plus" ->
            <<caster>> \o Drawn(others, skill.count - 1, luck)
       [] pool # <<>> /\ skill.select = "random" -> Drawn(pool, skill.count, luck)
       [] pool # <<>> /\ skill.select = "highest" -> Highest(f, pool, 1)
       [] pool # <<>> /\ skill.select = "lowest" -> Lowest(f, pool, 1)
       [] pool # <<>> /\ skill.select = "count" -> Cut(led, skill.count)

Outcome(f) ==
  [f |-> f, strikes |-> <<>>, statuses |-> <<>>, heals |-> <<>>,
   revives |-> <<>>, immune |-> <<>>, gauge |-> <<>>, cooldowns |-> <<>>, kids |-> <<>>]

Hit(o, swing, u, n) ==
  [o EXCEPT !.f = Hurt(@, u, n),
            !.strikes = Append(@, [swing |-> swing, unit |-> u, dmg |-> n, died |-> FALSE])]

\* What a shield absorbs is not in the row.
ShieldedHit(o, swing, u, n) ==
  LET a == Absorbed(o.f, u, n) IN Hit([o EXCEPT !.f = a.f], swing, u, a.left)

LastSwing(o) == FoldLeft(LAMBDA m, s : IF s.swing > m THEN s.swing ELSE m, 0, o.strikes)
\* A hit that is reported after everything the skill itself did.
LateHit(o, u, n) == Hit(o, 1 + LastSwing(o), u, n)

\* Every target takes every swing, dead or not.
Struck(o, caster, skill, targets) ==
  FoldLeft(LAMBDA p, i : FoldLeft(LAMBDA q, u :
               ShieldedHit(q, i, u, Strike(q.f, caster, u, skill.power)), p, targets),
           o, IF skill.power > 0 THEN [i \in 1..skill.swings |-> i - 1] ELSE <<>>)

StatusRowOf(u, s, rounds) == [unit |-> u, status |-> s, rounds |-> rounds]

\* What the wire says of an application: one round when none was stated.
WireRounds(stated) ==
  IF stated = Always THEN Always ELSE IF stated > 1 THEN stated ELSE 1

Removed(o, u, gone) ==
  [o EXCEPT !.f = Without(@, u, gone),
            !.statuses = @ \o SetToSeq({StatusRowOf(u, s, 0) : s \in gone})]

\* An immune unit gets a row of its own kind, once; what an application
\* replaces by name is removed before its row goes out.
ApplyTo(o, e, caster, u) ==
  IF IsImmune(o.f, u, e.status)
  THEN [o EXCEPT !.immune = IF Contains(@, u) THEN @ ELSE Append(@, u)]
  ELSE LET on == [o EXCEPT !.f = Applied(@, u, e.status, e.rounds, caster)]
           off == Removed(on, u, Held(on.f, u) \cap e.removes)
       IN [off EXCEPT !.statuses = Append(@, StatusRowOf(u, e.status, WireRounds(e.rounds)))]

HealBy(o, u, n) ==
  [o EXCEPT !.f = Healed(@, u, n), !.heals = Append(@, [unit |-> u, hp |-> n])]

Raise(o, u, n) ==
  [o EXCEPT !.f.hp[u] = n, !.revives = Append(@, [unit |-> u, hp |-> n])]

-----------------------------------------------------------------------------
(* Conditions.                                                             *)

\* "held" is what every unit held when the effects began; a condition the
\* engine cannot read is "unknown", and is decided by chance.
Met(o, need, caster, target, at) ==
  LET holder == IF need.on = "caster" THEN caster ELSE target
      says(b) == IF b THEN "yes" ELSE "no"
  IN CASE need.is = "killed" ->
            says((\E i \in DOMAIN at.targets : ~Up(o.f, at.targets[i])) = need.want)
       [] need.is = "round" -> says(at.round % 2 = need.n)
       [] need.is = "alive_gte" -> says(Alive(o.f, caster, need.side) >= need.n)
       [] need.is = "alive_lte" -> says(Alive(o.f, caster, need.side) <= need.n)
       [] need.is = "hp_lte" ->
            IF holder = Nobody THEN "unknown" ELSE says(o.f.hp[holder] <= need.n)
       [] need.is = "status" ->
            says((holder # Nobody /\ need.status \in at.held[holder]) = need.want)
       [] need.is = "unreadable" -> "unknown"

\* ~_blocked: `lucky` says whether the chance would come up.
Open(o, e, caster, target, at, lucky) ==
  \/ e.requires.is = "always"
  \/ e.requires.is # "always" /\
       LET met == Met(o, e.requires, caster, target, at)
       IN met = "yes" \/ (met = "unknown" /\ lucky)

Lead(targets) == IF targets = <<>> THEN Nobody ELSE targets[1]

-----------------------------------------------------------------------------
(* Effects.                                                                *)

StatusRecipients(o, caster, e, targets) ==
  CASE e.to = "caster" -> <<caster>>
    [] e.to = "allies" -> Allies(o.f, caster)
    [] e.to = "fastest" -> Fastest(Enemies(o.f, caster), 1)
    [] OTHER -> targets

HealRecipients(o, caster, e, targets) ==
  CASE e.to = "caster" -> <<caster>>
    [] e.to = "allies" -> Allies(o.f, caster)
    [] e.to = "allies_lowest" -> Lowest(o.f, Allies(o.f, caster), 1)
    [] e.to = "targets" -> targets

GaugeRecipients(o, caster, e, targets) ==
  CASE e.to = "caster" -> <<caster>>
    [] e.to = "allies" -> Strongest(Allies(o.f, caster), 1)
    [] e.to = "targets" -> targets

\* A status is gated recipient by recipient; one for the caster's own side
\* asks its condition of the unit that was attacked.
StatusLands(o, e, caster, u, targets, at, luck) ==
  LET asked == IF e.to \in {"caster", "allies"} THEN Lead(targets) ELSE u
  IN Open(o, e, caster, asked, at, u \in luck.lands) /\ (e.chance => u \in luck.lands)

\* attack_rider.  A share of the attacker's own attack passes the shields.
Rider(o, e, caster, targets) ==
  LET dealt == Sum([i \in DOMAIN o.strikes |-> o.strikes[i].dmg])
  IN CASE e.kind = "lifesteal" -> IF dealt = 0 THEN o ELSE HealBy(o, caster, 1)
       [] e.kind = "heal" ->
            FoldLeft(LAMBDA p, u : HealBy(p, u, 1), o, HealRecipients(o, caster, e, targets))
       [] e.kind = "hp_bonus" ->
            FoldLeft(LAMBDA p, u : ShieldedHit(p, 0, u, 1), o, targets)
       [] e.kind = "atk_bonus" ->
            FoldLeft(LAMBDA p, u : Hit(p, 0, u, Strike(p.f, caster, u, 1)), o, targets)

Effect(o, e, caster, targets, at, luck) ==
  LET lucky == caster \in luck.lands
      open == Open(o, e, caster, Lead(targets), at, lucky)
      each(to) == [i \in DOMAIN to |-> [unit |-> to[i], by |-> e.by]]
  IN CASE e.op = "apply_status" ->
            FoldLeft(LAMBDA p, u : IF StatusLands(p, e, caster, u, targets, at, luck)
                                   THEN ApplyTo(p, e, caster, u) ELSE p,
                     o, StatusRecipients(o, caster, e, targets))
       [] e.op = "remove_status" ->
            FoldLeft(LAMBDA p, u : Removed(p, u, Removable(p.f, u, e.category)), o, targets)
       [] e.op = "heal" /\ open ->
            FoldLeft(LAMBDA p, u : IF BlocksHeal(p.f, u) THEN p ELSE HealBy(p, u, 1),
                     o, HealRecipients(o, caster, e, targets))
       [] e.op = "modify_gauge" /\ open /\ (e.chance => lucky) ->
            [o EXCEPT !.gauge = @ \o each(GaugeRecipients(o, caster, e, targets))]
       [] e.op = "revive" /\ open ->
            FoldLeft(LAMBDA p, u : Raise(p, u, 1), o, Drawn(Fallen(o.f, caster), e.n, luck))
       [] e.op = "attack_rider" /\ open -> Rider(o, e, caster, targets)
       [] e.op = "modify_cd" ->
            [o EXCEPT !.cooldowns = @ \o each(SelectSeq(
               StatusRecipients(o, caster, e, targets),
               LAMBDA u : ~(e.by < 0 /\ BlocksCdCut(o.f, u))))]
       [] OTHER -> o

-----------------------------------------------------------------------------
(* What the damage sets off: thorns, counters, the passives of the deaths. *)

StruckUnits(o) == {o.strikes[i].unit : i \in DOMAIN o.strikes}

\* _report.  A unit that this cast struck cannot be shown getting up again in
\* the same payload; a gauge has no row at all.
Reported(o, row) ==
  CASE row.effect = "status" ->
         [o EXCEPT !.statuses = Append(@, StatusRowOf(row.unit, row.what, 1))]
    [] row.effect = "remove" ->
         [o EXCEPT !.statuses = Append(@, StatusRowOf(row.unit, row.what, 0))]
    [] row.effect = "damage" ->
         [o EXCEPT !.strikes = Append(@, [swing |-> 1 + LastSwing(o), unit |-> row.unit,
                                          dmg |-> row.what, died |-> FALSE])]
    [] row.effect = "heal" ->
         [o EXCEPT !.heals = Append(@, [unit |-> row.unit, hp |-> row.what])]
    [] row.effect = "revive" /\ row.unit \notin StruckUnits(o) ->
         [o EXCEPT !.revives = Append(@, [unit |-> row.unit, hp |-> row.what])]
    [] OTHER -> o

Report(o, fired) == FoldLeft(Reported, [o EXCEPT !.f = fired.f], fired.rows)

\* Thorns hurt whoever holds them once per cast, and the unit answers for
\* itself if that leaves it standing.
Answered(o, caster, u, luck) ==
  LET extra == OnHitExtra(o.f, u)
      hurt == IF extra = 0 THEN o ELSE LateHit(o, u, extra)
  IN Report(hurt, FireAll(hurt.f, "damage_taken", <<u>>,
                          [attacker |-> caster, victim |-> Nobody, rng |-> TRUE], luck))

\* The victims are looked for once, in field order: a unit that falls after
\* its place in the order has passed sets off nothing.
Hooks(o, caster, targets, standing, luck) ==
  LET struck == StruckUnits(o)
      ctx(v) == [attacker |-> caster, victim |-> v, rng |-> TRUE]
      answered == FoldLeft(LAMBDA p, u : IF u \in struck THEN Answered(p, caster, u, luck) ELSE p,
                           o, targets)
      dealt == Report(answered, FireAll(answered.f, "damage_dealt", <<caster>>,
                                        ctx(Nobody), luck))
  IN IF struck = {} THEN o
     ELSE FoldLeft(LAMBDA p, v : IF v \in standing /\ ~Up(p.f, v)
                                 THEN Report(p, FireAll(p.f, "death", Seating, ctx(v), luck))
                                 ELSE p,
                   dealt, Seating)

\* Variant: only the units aimed at are looked up.
FlaggedTargets(strikes, f, targets) ==
  [i \in DOMAIN strikes |->
     [strikes[i] EXCEPT !.died = @ \/
        /\ Contains(targets, strikes[i].unit) /\ ~Up(f, strikes[i].unit)
        /\ \A j \in DOMAIN strikes : j > i => strikes[j].unit # strikes[i].unit]]

\* `die` goes on the last strike of every unit that is down at the end.
Flagged(strikes, f, targets) ==
  [i \in DOMAIN strikes |->
     [strikes[i] EXCEPT !.died = @ \/
        /\ ~Up(f, strikes[i].unit)
        /\ \A j \in DOMAIN strikes : j > i => strikes[j].unit # strikes[i].unit]]

RECURSIVE Execute(_, _, _, _, _, _, _)
\* A follow-up runs as a cast of its own on the first target; its strikes and
\* status rows ride the parent's payload, its heals and revivals do not.
FollowUp(o, e, caster, targets, at, luck, depth) ==
  IF \/ e.needs # Nobody /\ e.needs \notin at.held[caster]
     \/ ~Open(o, e, caster, Lead(targets), at, caster \in luck.lands)
     \/ e.chance /\ caster \notin luck.lands
     \/ depth >= MaxFollowDepth
  THEN o
  ELSE LET kid == Execute(o.f, caster, e.skill, Lead(targets), at.round, luck, depth + 1)
       IN [o EXCEPT !.f = kid.f, !.kids = @ \o kid.strikes \o kid.kids,
                    !.gauge = @ \o kid.gauge, !.cooldowns = @ \o kid.cooldowns]

Execute(f, caster, skill, chosen, round, luck, depth) ==
  LET targets == Targets(f, caster, skill, chosen, luck)
      hit == Struck(Outcome(f), caster, skill, targets)
      at == [targets |-> targets, round |-> round, held |-> [u \in Orders |-> Held(hit.f, u)]]
      done == FoldLeft(LAMBDA p, e : IF e.op = "follow_up"
                                     THEN FollowUp(p, e, caster, targets, at, luck, depth)
                                     ELSE Effect(p, e, caster, targets, at, luck),
                       hit, skill.effects)
      hooked == IF depth = 0
                THEN Hooks(done, caster, targets, {u \in Orders : Up(f, u)}, luck)
                ELSE done
  IN [hooked EXCEPT !.strikes = Flagged(@, hooked.f, targets)]

\* attack_combo sends a bare row instead when the parent itself did nothing.
Idle(o) ==
  /\ o.strikes = <<>> /\ o.heals = <<>> /\ o.gauge = <<>>
  /\ o.revives = <<>> /\ o.statuses = <<>>

-----------------------------------------------------------------------------
(* The rows of the payload (engine/wire.py).                               *)

WireRow(u, mode, n, died) == [unit |-> u, mode |-> mode, hp |-> n, die |-> died]

\* Variant: every strike gets a row of its own.
Unfolded(group, row) == Append(group, row)

\* One row per unit and mode: the client keys a group by unit.
Folded(group, row) ==
  LET same == {i \in DOMAIN group : group[i].unit = row.unit /\ group[i].mode = row.mode}
  IN IF same = {} THEN Append(group, row)
     ELSE [group EXCEPT ![CHOOSE i \in same : \A j \in same : i <= j] =
             [@ EXCEPT !.hp = @ + row.hp, !.die = @ \/ row.die]]

InGroup(s, swings) == IF s.swing < swings THEN s.swing + 1 ELSE swings

StrikeGroups(strikes, swings) ==
  [g \in 1..swings |->
     FoldLeft(Folded, <<>>,
              LET mine == SelectSeq(strikes, LAMBDA s : InGroup(s, swings) = g)
              IN [i \in DOMAIN mine |->
                    WireRow(mine[i].unit, "hp", -mine[i].dmg, mine[i].died)])]

Shown(lead, u) == \E i \in DOMAIN lead : lead[i].unit = u

\* A heal of a unit the lead does not show rides inside a damage row.
WithHeal(lead, h) ==
  IF Shown(lead, h.unit) \/ ~\E i \in DOMAIN lead : lead[i].mode = "hp" /\ lead[i].hp < 0
  THEN Folded(lead, WireRow(h.unit, "hp", h.hp, FALSE)) ELSE lead

WithRevive(lead, r) ==
  Append(SelectSeq(lead, LAMBDA row : row.unit # r.unit),
         WireRow(r.unit, "revive", r.hp, FALSE))

WithImmune(lead, u) ==
  IF Shown(lead, u) THEN lead ELSE Append(lead, WireRow(u, "immune", 0, FALSE))

\* `die` survives on a unit's last row only.
LastDie(groups) ==
  [g \in DOMAIN groups |-> [i \in DOMAIN groups[g] |->
     [groups[g][i] EXCEPT !.die = @ /\
        ~\E h \in DOMAIN groups : \E j \in DOMAIN groups[h] :
           (h > g \/ (h = g /\ j > i)) /\ groups[h][j].die
           /\ groups[h][j].unit = groups[g][i].unit]]]

Trimmed(groups) ==
  LET used == {g \in DOMAIN groups : groups[g] # <<>>}
  IN IF used = {} THEN SubSeq(groups, 1, 1)
     ELSE SubSeq(groups, 1, CHOOSE g \in used : \A h \in used : h <= g)

Groups(o, skill, who) ==
  LET struck == StrikeGroups(o.strikes \o o.kids, skill.swings)
      lead == FoldLeft(WithImmune,
                FoldLeft(WithRevive, FoldLeft(WithHeal, struck[1], o.heals), o.revives),
                o.immune)
      full == [struck EXCEPT ![1] = lead]
  IN IF \A g \in DOMAIN full : full[g] = <<>>
     THEN <<<<WireRow(who, "hp", 0, FALSE)>>>>
     ELSE LastDie(Trimmed(full))

\* _assert_invariants and the empty-group check: otherwise WireError.
Legal(groups) ==
  /\ \A g \in DOMAIN groups :
       /\ groups[g] # <<>>
       /\ \A i, j \in DOMAIN groups[g] :
            i # j => \/ groups[g][i].unit # groups[g][j].unit
                     \/ (g > 1 /\ groups[g][i].mode # groups[g][j].mode)
  /\ \A u \in Orders :
       Len(SelectSeq(FlattenSeq(groups), LAMBDA r : r.unit = u /\ r.die)) <= 1

\* What the client makes of the rows: who falls and who gets up.
Fallers(groups) == {r.unit : r \in {x \in Range(FlattenSeq(groups)) : x.die}}
Risers(groups) == {r.unit : r \in {x \in Range(FlattenSeq(groups)) : x.mode = "revive"}}

=============================================================================
