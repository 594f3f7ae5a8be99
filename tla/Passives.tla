------------------------------ MODULE Passives ------------------------------
(***************************************************************************)
(* The passive skills of the field (engine/passives.py): rules compiled    *)
(* from a skill, fired by a trigger for every living holder.               *)
(*                                                                         *)
(* What is drawn at random comes from `luck`: [lands: the units whose      *)
(* chances come up, pick: the unit a draw falls on first].                 *)
(***************************************************************************)
EXTENDS Statuses

CONSTANTS
  Passive,   \* passive skills
  Rules,     \* [Passive -> sequences of rules]
  Has,       \* [order -> sequence of its passive skills]
  Spd,       \* [order -> speed, in gauge points per step]
  Atk        \* [order -> attack]

Triggers == {"battle_start", "turn_start", "after_action", "damage_dealt",
             "damage_taken", "death"}

PassivesAssumption ==
  /\ DOMAIN Rules = Passive
  /\ Has \in [Orders -> Seq(Passive)]
  /\ \A p \in Passive : \A i \in DOMAIN Rules[p] : Rules[p][i].on \in Triggers
  /\ Spd \in [Orders -> {n \in Nat : n > 0}] /\ Atk \in [Orders -> Nat]
ASSUME PassivesAssumption

-----------------------------------------------------------------------------
(* Selectors.                                                              *)

Seated(P(_)) == SelectSeq(Seating, P)
Allies(f, u) == Seated(LAMBDA v : ~Foes(u, v) /\ Up(f, v))
Enemies(f, u) == Seated(LAMBDA v : Foes(u, v) /\ Up(f, v))
Fallen(f, u) == Seated(LAMBDA v : ~Foes(u, v) /\ ~Up(f, v))

Cut(s, n) == SubSeq(s, 1, IF n < Len(s) THEN n ELSE Len(s))
Seat(u) == CHOOSE i \in DOMAIN Seating : Seating[i] = u
\* Python's sort is stable: equals keep their seats.
Ranked(s, num(_)) ==
  SortSeq(s, LAMBDA u, v : num(u) < num(v) \/ (num(u) = num(v) /\ Seat(u) < Seat(v)))
Lowest(f, s, n) == Cut(Ranked(s, LAMBDA u : f.hp[u]), n)
Highest(f, s, n) == Cut(Ranked(s, LAMBDA u : -f.hp[u]), n)
Fastest(s, n) == Cut(Ranked(s, LAMBDA u : -Spd[u]), n)
Strongest(s, n) == Cut(Ranked(s, LAMBDA u : -Atk[u]), n)

\* A draw of n: the lucky unit first, the others by seat.
Drawn(s, n, luck) ==
  Cut(SelectSeq(s, LAMBDA u : u = luck.pick) \o SelectSeq(s, LAMBDA u : u # luck.pick), n)

\* ctx: [attacker, victim : Orders \cup {Nobody}, rng : BOOLEAN].
Recipients(f, u, to, ctx, luck) ==
  CASE to.who = "self" -> <<u>>
    [] to.who = "allies" -> Allies(f, u)
    [] to.who = "enemies" -> Enemies(f, u)
    [] to.who = "attacker" -> IF ctx.attacker # Nobody /\ Up(f, ctx.attacker)
                              THEN <<ctx.attacker>> ELSE <<>>
    [] to.who = "fallen" -> IF Len(Fallen(f, u)) <= to.n THEN Fallen(f, u)
                            ELSE Drawn(Fallen(f, u), to.n, luck)
    [] to.who = "lowest" -> Lowest(f, Allies(f, u), to.n)
    [] to.who = "toughest" -> Highest(f, Enemies(f, u), to.n)
    [] to.who = "fastest" -> Fastest(Enemies(f, u), to.n)
    [] to.who = "strongest" -> Strongest(Allies(f, u), to.n)

-----------------------------------------------------------------------------
(* Gates.                                                                  *)

Alive(f, u, side) == IF side = "ally" THEN Len(Allies(f, u)) ELSE Len(Enemies(f, u))

\* _other: the attacker, else the victim, but never the holder itself.
Other(u, ctx) ==
  CASE ctx.attacker \notin {u, Nobody} -> ctx.attacker
    [] ctx.attacker \in {u, Nobody} /\ ctx.victim # u -> ctx.victim
    [] OTHER -> Nobody

HoldsOne(f, u, s) == u # Nobody /\ s \in Held(f, u)

When(f, u, gate, ctx) ==
  CASE gate.is = "always" -> TRUE
    [] gate.is = "hp_at_least" -> f.hp[u] >= gate.n
    [] gate.is = "hp_at_most" -> f.hp[u] <= gate.n
    [] gate.is = "holds" -> HoldsOne(f, u, gate.status)
    [] gate.is = "other_holds" -> HoldsOne(f, Other(u, ctx), gate.status)
    [] gate.is = "faster" -> Other(u, ctx) # Nobody /\ Spd[u] - Spd[Other(u, ctx)] > gate.n
    [] gate.is = "alive_gte" -> Alive(f, u, gate.side) >= gate.n
    [] gate.is = "alive_lte" -> Alive(f, u, gate.side) <= gate.n

\* Without a source of chance in its context a rule of chance always fires.
Comes(rule, u, ctx, luck) == rule.chance /\ ctx.rng => u \in luck.lands

-----------------------------------------------------------------------------
(* Firing.  A step answers the field and the rows of what it changed.      *)

Row(u, effect, what) == [unit |-> u, effect |-> effect, what |-> what]

\* Unlike apply_event: no immunity is asked, a held status is not renewed, a
\* shield stays empty and a taunt has no source.
Granted(a, u, rule) ==
  IF rule.status \in Held(a.f, u) THEN a
  ELSE [f |-> [a.f EXCEPT !.st[u][rule.status] =
                 IF rule.rounds = 0 THEN DefaultDuration ELSE rule.rounds],
        rows |-> Append(a.rows, Row(u, "status", rule.status))]

Stripped(a, u, category) ==
  LET gone == Removable(a.f, u, category)
  IN [f |-> Without(a.f, u, gone),
      rows |-> a.rows \o SetToSeq({Row(u, "remove", s) : s \in gone})]

Done(a, u, rule) ==
  CASE rule.effect = "status" -> Granted(a, u, rule)
    [] rule.effect = "remove" -> Stripped(a, u, rule.category)
    [] rule.effect = "gauge" /\ rule.n < 0 /\ BlocksLoss(a.f, u) -> a
    [] rule.effect = "revive" /\ Up(a.f, u) -> a
    [] OTHER ->
         [f |-> CASE rule.effect = "heal" -> Healed(a.f, u, rule.n)
                  [] rule.effect = "damage" -> Hurt(a.f, u, rule.n)
                  [] rule.effect = "gauge" -> [a.f EXCEPT !.scv[u] = GaugeAt(@ + rule.n)]
                  [] rule.effect = "revive" -> [a.f EXCEPT !.hp[u] = rule.n],
          rows |-> Append(a.rows, Row(u, rule.effect, rule.n))]

\* fire: every rule of the skill is gated, and its recipients are chosen,
\* before the first of them changes anything.
Fire(a, u, p, trigger, ctx, luck) ==
  LET pending == SelectSeq([i \in DOMAIN Rules[p] |-> i], LAMBDA i :
                   /\ Rules[p][i].on = trigger
                   /\ ~(Rules[p][i].once /\ <<p, i>> \in a.f.fired)
                   /\ When(a.f, u, Rules[p][i].when, ctx)
                   /\ Comes(Rules[p][i], u, ctx, luck))
      chosen == [i \in DOMAIN Rules[p] |-> Recipients(a.f, u, Rules[p][i].to, ctx, luck)]
      spent == {<<p, i>> : i \in {j \in Range(pending) : Rules[p][j].once}}
      done == FoldLeft(LAMBDA b, i : FoldLeft(LAMBDA c, v : Done(c, v, Rules[p][i]),
                                              b, chosen[i]),
                       a, pending)
  IN [done EXCEPT !.f.fired = @ \cup spent]

\* fire_all: of the dead only the victim itself has something to say.
FireAll(f, trigger, holders, ctx, luck) ==
  FoldLeft(LAMBDA a, u :
             IF ~Up(a.f, u) /\ ~(trigger = "death" /\ u = ctx.victim) THEN a
             ELSE FoldLeft(LAMBDA b, p : Fire(b, u, p, trigger, ctx, luck), a, Has[u]),
           [f |-> f, rows |-> <<>>], holders)

NoCtx == [attacker |-> Nobody, victim |-> Nobody, rng |-> FALSE]

=============================================================================
