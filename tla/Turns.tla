-------------------------------- MODULE Turns --------------------------------
(***************************************************************************)
(* Whose turn it is, what it may do, and what it leaves behind: the move   *)
(* gauges, the cooldowns, the duration of statuses and the deaths that no  *)
(* attack carried (battle.py, with the candidates of battle_ai.py).  An    *)
(* attack is a cast of module Skills.                                      *)
(*                                                                         *)
(* Time is measured in whole gauge steps; speeds, and what a skill moves a *)
(* gauge by, are chosen so that every bar fills at a whole step.           *)
(***************************************************************************)
EXTENDS Skills

CONSTANTS
  Skill,      \* [order -> its active skills by slot: basic, power, special]
  WaveMax,
  Lucks,      \* the draws of chance that are looked at
  CastMax     \* bound: casts of more than a basic skill in one fight

UltimateSlot == 3

TurnsAssumption ==
  /\ WaveMax \in Nat \ {0} /\ CastMax \in Nat
  /\ Team \in [Orders -> {"party", "enemy"}]
  /\ \A u \in Orders : Len(Skill[u]) \in 1..UltimateSlot
  /\ Lucks \subseteq [lands : SUBSET Orders, pick : Orders]
ASSUME TurnsAssumption

VARIABLES
  battle,   \* the Battle object: the field of Statuses, and the turn
  board,    \* the client: who it draws on its feet
  torn,     \* a payload broke the wire's own assertions
  casts     \* how many skills beyond the basic ones were cast so far

vars == <<battle, board, torn, casts>>

CdTurns(u, slot) == Skill[u][slot].cd
ChargeOf(u) == IF Len(Skill[u]) < UltimateSlot THEN 0 ELSE Skill[u][UltimateSlot].charge

Battle ==
  [hp : [Orders -> 0..MaxHp], st : [Orders -> [Statuses -> Nat \cup {Always}]],
   shield : [Orders -> [Shields -> Nat]], goad : [Orders -> Orders \cup {Nobody}],
   scv : [Orders -> 0..ScvFull], fired : SUBSET (Passive \X Nat),
   ahead : [Orders -> Int],              \* pending_scv
   cd : [Orders -> Seq(Nat)], charge : [Orders -> Nat],
   actor : Orders \cup {Nobody},         \* the head of turn_order
   wave : 1..WaveMax,
   round : 0..1,                         \* the round counter, modulo 2
   owed : SUBSET Orders,                 \* _pending_dot_deaths
   unseen : SUBSET Orders]               \* raised where nothing could announce it

Party == {u \in Orders : Team[u] = "party"}
EnemySide == Orders \ Party
Living(b) == {u \in Orders : Up(b, u)}
Cleared(b) == Living(b) \cap EnemySide = {}
Wiped(b) == Living(b) \cap Party = {}
Decided(b) == Cleared(b) \/ Wiped(b)
Over(b) == Wiped(b) \/ (Cleared(b) /\ b.wave = WaveMax)

-----------------------------------------------------------------------------
(* Gauges.                                                                 *)

GaugeBlocks == {s \in Statuses : StatusRow[s].stopsGain}
CanAge(b) == \E u \in Living(b) : \E s \in GaugeBlocks : b.st[u][s] > 0

\* A gauge block is spent on the battle's clock, whoever moves.
AgeBlocks(b) ==
  FoldLeft(LAMBDA c, u : IF Up(b, u) THEN Aged(c, u, GaugeBlocks) ELSE c, b, Seating)

\* rank_key: the faster, then the party, then the seat.
Ahead(u, v) == Spd[u] > Spd[v] \/ (Spd[u] = Spd[v] /\ Seat(u) < Seat(v))
First(us) == CHOOSE u \in us : \A v \in us : v = u \/ Ahead(u, v)

FillTime(b, u) == (ScvFull - b.scv[u] + Spd[u] - 1) \div Spd[u]

\* The gauges run until the first bar that can fill is full.
Advanced(b) ==
  LET can == {u \in Living(b) : ~BlocksGain(b, u)}
      first == CHOOSE u \in can : \A v \in can : FillTime(b, u) <= FillTime(b, v)
  IN [b EXCEPT !.scv = [u \in Orders |->
        IF u \in can THEN GaugeAt(@[u] + FillTime(b, first) * Spd[u]) ELSE @[u]]]

\* The best of the full bars acts.
Fronted(b) ==
  LET full == {u \in Living(b) : b.scv[u] = ScvFull}
  IN [b EXCEPT !.actor = IF full = {} THEN Nobody ELSE First(full)]

\* Variant: when nobody can fill, the gauges just stop.
RollStopping(b) ==
  IF \A u \in Living(b) : BlocksGain(b, u) THEN Fronted(b) ELSE Fronted(Advanced(b))

RECURSIVE Roll(_)
\* With every bar blocked the blocks are aged until one gives way; with only
\* permanent blocks left the fastest unit is handed a full bar.
Roll(b) ==
  CASE Living(b) = {} -> [b EXCEPT !.actor = Nobody]
    [] \E u \in Living(b) : ~BlocksGain(b, u) -> Fronted(Advanced(b))
    [] OTHER -> IF CanAge(b) THEN Roll(AgeBlocks(b))
                ELSE Fronted([b EXCEPT !.scv[First(Living(b))] = ScvFull])

-----------------------------------------------------------------------------
(* The start and the end of a turn.                                        *)

\* _absorb_passive: a kill is owed to the client, a revival cannot be told.
Absorb(b, fired) ==
  LET of(effect) == {fired.rows[i].unit : i \in {j \in DOMAIN fired.rows :
                                                   fired.rows[j].effect = effect}}
  IN [fired.f EXCEPT !.owed = @ \cup {u \in of("damage") : ~Up(fired.f, u)},
                     !.unseen = @ \cup (of("revive") \ Living(b))]

Outside(b, trigger, holders, ctx, luck) ==
  Absorb(b, FireAll(b, trigger, holders, ctx, luck))

AllNested(b) ==
  FoldLeft(LAMBDA c, u : IF Up(c, u) THEN Nested(c, u, FALSE) ELSE c, b, Seating)

\* tick_cooldowns: the skills reload and the special move comes closer.
Reloaded(b, u) ==
  [b EXCEPT !.cd[u] = [i \in DOMAIN @ |-> Least0(@[i] - 1)],
            !.charge[u] = IF @ < ChargeOf(u) THEN @ + 1 ELSE @]

\* A unit that burns to death sets off the passives of death before the roll.
BurntDown(b, u, luck) ==
  Outside([b EXCEPT !.owed = @ \cup {u}], "death", Seating,
          [attacker |-> Nobody, victim |-> u, rng |-> TRUE], luck)

NextRound(b) == [b EXCEPT !.round = 1 - @]

\* A skipped turn costs the bar and a turn of every status.
Skipped(b, u) ==
  NextRound(Roll([Ticked(Reloaded(b, u), u) EXCEPT !.scv[u] = 0]))

RECURSIVE StartOfTurn(_, _, _)
\* The unit in front burns and mends, may die of it, is given what its
\* passives and markers give, and loses the turn if it is immobilized.
StartOfTurn(b, luck, depth) ==
  IF b.actor = Nobody \/ depth > Len(Seating) THEN b
  ELSE LET u == b.actor
           burnt == Hurt(b, u, TickDot(b, u))
           \* even the dead are mended before the count is taken
           ticked == IF TickHot(b, u) > 0 THEN Healed(burnt, u, TickHot(b, u)) ELSE burnt
           ready == AllNested(Outside(ticked, "turn_start", <<u>>, NoCtx, luck))
       IN CASE ~Up(ticked, u) -> StartOfTurn(Roll(BurntDown(ticked, u, luck)), luck, depth + 1)
            [] Up(ticked, u) /\ Immobilized(ready, u) ->
                 StartOfTurn(Skipped(ready, u), luck, depth + 1)
            [] OTHER -> ready

\* Variant: the actor keeps its bar.
RestedFull(b, u) == [b EXCEPT !.ahead[u] = 0]

\* The bar is spent first, so that a head start won in the turn survives.
Rested(b, u) ==
  [b EXCEPT !.ahead[u] = 0,
            !.scv[u] = IF b.ahead[u] > 0 /\ BlocksGain(b, u) THEN 0 ELSE GaugeAt(b.ahead[u])]

\* end_turn.
EndTurn(b, luck) ==
  LET u == b.actor
      rested == Rested(Reloaded(b, u), u)
      after == Nested(Outside(rested, "after_action", <<u>>, NoCtx, luck), u, TRUE)
  IN StartOfTurn(NextRound(Roll(AgeBlocks(Ticked(after, u)))), luck, 0)

-----------------------------------------------------------------------------
(* What the unit in front may do.                                          *)

\* usable_slots: neither sealed nor reloading nor, for the special move,
\* still charging; a unit that has nothing left may use its basic skill.
UsableSlots(b, u) ==
  LET free == {i \in DOMAIN Skill[u] :
                 /\ i \notin SealedSlots(b, u)
                 /\ b.cd[u][i] = 0
                 /\ i = UltimateSlot => b.charge[u] >= ChargeOf(u)}
  IN IF free = {} THEN {1} ELSE free

\* _forced_target: whom a lured unit attacks, whoever was aimed at.
ForcedTarget(b, u, luck) ==
  LET drawn(s) == IF s = <<>> THEN Nobody ELSE Drawn(s, 1, luck)[1]
      others == Seated(LAMBDA v : v # u /\ Up(b, v))
  IN CASE Lure(b, u) = "taunt" ->
            IF b.goad[u] # Nobody /\ Up(b, b.goad[u]) THEN b.goad[u] ELSE Nobody
       [] Lure(b, u) = "allies" -> drawn(SelectSeq(others, LAMBDA v : ~Foes(u, v)))
       [] Lure(b, u) = "any" -> drawn(others)
       [] OTHER -> Nobody

\* _forced_skill: a lure that leaves its holder the basic skill only.
SkillCast(b, u, slot) ==
  IF Lure(b, u) # "none" /\ BasicOnly(b, u) THEN Skill[u][1] ELSE Skill[u][slot]

\* battle_ai: the slots that may be used, and the units each may be led to.
\* The choice among them weighs samples of the outcome; here it is any.
Candidates(b, u, luck) ==
  LET forced == ForcedTarget(b, u, luck)
      foes == Enemies(b, u)
      leads(slot) ==
        LET pool == Seated(LAMBDA v : Eligible(b, u, v, Skill[u][slot].group))
            resolved == Targets(b, u, Skill[u][slot], Nobody, luck)
        IN CASE Skill[u][slot].select = "count" /\ forced # Nobody -> {forced}
             [] Skill[u][slot].select = "count" /\ forced = Nobody /\ pool # <<>> -> Range(pool)
             [] OTHER -> {IF resolved # <<>> THEN resolved[1]
                          ELSE IF forced # Nobody THEN forced ELSE foes[1]}
  IN UNION {{[slot |-> i, aim |-> v] : v \in leads(i)} : i \in UsableSlots(b, u)}

-----------------------------------------------------------------------------
(* The requests.                                                           *)

\* _write_back: the caster's own head start waits for the end of the turn.
GaugeMoved(b, caster, g) ==
  CASE g.unit = caster /\ ~(g.by > 0 /\ BlocksGain(b, caster)) ->
         [b EXCEPT !.ahead[caster] = @ + g.by]
    [] g.unit # caster /\ ~(g.by > 0 /\ BlocksGain(b, g.unit))
                       /\ ~(g.by < 0 /\ BlocksLoss(b, g.unit)) ->
         [b EXCEPT !.scv[g.unit] = GaugeAt(@ + g.by)]
    [] OTHER -> b

CooldownMoved(b, c) == [b EXCEPT !.cd[c.unit] = [i \in DOMAIN @ |-> Least0(@[i] + c.by)]]

WrittenBack(b, caster, o) ==
  FoldLeft(LAMBDA c, g : GaugeMoved(c, caster, g),
           FoldLeft(CooldownMoved, b, o.cooldowns), o.gauge)

\* spend_skill.
Spent(b, u, slot) == [b EXCEPT !.cd[u][slot] = CdTurns(u, slot)]

\* An attack is possible exactly then: an undecided fight has a foe to hit.
MayAttack == battle.actor # Nobody /\ battle.owed = {} /\ ~Decided(battle)

\* Attack (201): the cast, its rows, the cooldown and the end of the turn.
Attack(slot, aim, luck) ==
  /\ \E forced \in {ForcedTarget(battle, battle.actor, luck)} :
     \E chosen \in {IF forced = Nobody THEN aim ELSE forced} :
     \E o \in {Execute(battle, battle.actor, SkillCast(battle, battle.actor, slot),
                       chosen, battle.round, luck, 0)} :
       LET u == battle.actor
           skill == SkillCast(battle, u, slot)
           groups == IF Idle(o) THEN <<<<WireRow(chosen, "hp", 0, FALSE)>>>>
                     ELSE Groups(o, skill, u)
           cast == IF Idle(o) THEN o.f ELSE WrittenBack(o.f, u, o)
           \* whom a follow-up felled and a passive then raised is shown falling
           told == [cast EXCEPT !.unseen =
                      (@ \ Risers(groups)) \cup (Fallers(groups) \cap Living(cast))]
       IN /\ battle' = EndTurn(Spent(told, u, slot), luck)
          /\ torn' = (torn \/ ~Legal(groups))
          /\ board' = (board \ Fallers(groups)) \cup Risers(groups)
  /\ IF slot = 1 THEN UNCHANGED casts ELSE casts < CastMax /\ casts' = casts + 1

\* The server moves for an enemy, and for the party on auto.
AutoAttack ==
  /\ MayAttack
  /\ \E luck \in Lucks : \E c \in Candidates(battle, battle.actor, luck) :
        Attack(c.slot, c.aim, luck)

\* The player taps one of the foes.
PlayerAttack ==
  /\ MayAttack /\ battle.actor \in Party
  /\ \E luck \in Lucks, slot \in UsableSlots(battle, battle.actor),
        aim \in Range(Enemies(battle, battle.actor)) : Attack(slot, aim, luck)

\* A death that no attack carried is told in a row of its own.
TellDeath ==
  \E u \in battle.owed :
    /\ battle' = [battle EXCEPT !.owed = @ \ {u}]
    /\ board' = board \ {u}
    /\ UNCHANGED <<torn, casts>>

NoStatus == [s \in Statuses |-> 0]
NoShield == [s \in Shields |-> 0]
Ready(u) == [i \in DOMAIN Skill[u] |-> 0]

\* _spawn_wave: fresh mobs on the recycled keys.
Spawned(b) ==
  [b EXCEPT !.hp = [u \in Orders |-> IF u \in EnemySide THEN MaxHp ELSE @[u]],
            !.st = [u \in Orders |-> IF u \in EnemySide THEN NoStatus ELSE @[u]],
            !.shield = [u \in Orders |-> IF u \in EnemySide THEN NoShield ELSE @[u]],
            !.goad = [u \in Orders |-> IF u \in EnemySide THEN Nobody ELSE @[u]],
            !.cd = [u \in Orders |-> IF u \in EnemySide THEN Ready(u) ELSE @[u]],
            !.charge = [u \in Orders |-> IF u \in EnemySide THEN 0 ELSE @[u]],
            !.unseen = @ \cap Party]

\* _apply_battle_start, of every unit or of the side that has just arrived.
Started(b, us) ==
  FireAll(b, "battle_start", SelectSeq(Seating, LAMBDA u : u \in us), NoCtx,
          [lands |-> Orders, pick |-> Seating[1]]).f

Opening ==
  [hp |-> [u \in Orders |-> MaxHp], st |-> [u \in Orders |-> NoStatus],
   shield |-> [u \in Orders |-> NoShield], goad |-> [u \in Orders |-> Nobody],
   scv |-> [u \in Orders |-> 0], fired |-> {}, ahead |-> [u \in Orders |-> 0],
   cd |-> [u \in Orders |-> Ready(u)], charge |-> [u \in Orders |-> 0],
   actor |-> Nobody, wave |-> 1, round |-> 0, owed |-> {}, unseen |-> {}]

\* advance_wave: empty bars on both sides, and nothing of the old wave left
\* in the queue.
NextWave ==
  /\ Cleared(battle) /\ ~Over(battle) /\ battle.owed = {}
  /\ battle' = Roll([Started(Spawned([battle EXCEPT !.wave = @ + 1, !.owed = {}]), EnemySide)
                       EXCEPT !.scv = [u \in Orders |-> 0], !.ahead = [u \in Orders |-> 0]])
  /\ board' = (board \cap Party) \cup EnemySide
  /\ UNCHANGED <<torn, casts>>

\* The passives of one time that have had it when a fight begins.
FiredAtStart == Started(Opening, Orders).fired

\* A restarted server builds the fight anew and restores the units: the queue
\* and the head starts are gone, and the passives that fire once have fired
\* for the battle start only.
Restore ==
  /\ ~Over(battle)
  /\ battle' = [battle EXCEPT !.owed = {}, !.unseen = {}, !.ahead = [u \in Orders |-> 0],
                              !.fired = FiredAtStart]
  /\ board' = Living(battle)
  /\ UNCHANGED <<torn, casts>>

Finished == Over(battle) /\ battle.owed = {} /\ UNCHANGED vars

Init ==
  /\ battle = Roll(Started(Opening, Orders))
  /\ board = Orders
  /\ torn = FALSE /\ casts = 0

Next == AutoAttack \/ PlayerAttack \/ TellDeath \/ NextWave \/ Restore \/ Finished

Spec == Init /\ [][Next]_vars

\* On auto the client keeps asking for the next move, and answers every
\* death and every cleared wave: weak fairness of the three requests, each
\* spelt out by what only that request (or a restart) can bring about.
FairSpec ==
  /\ Spec
  /\ []<>(~MayAttack) \/ []<><<MayAttack /\ ~Restore>>_vars
  /\ []<>(battle.owed = {})
  /\ []<>(~Cleared(battle) \/ Over(battle))

-----------------------------------------------------------------------------
(* Properties.                                                             *)

\* Every variable stays in its range.
TypeOK ==
  /\ battle \in Battle
  /\ board \subseteq Orders
  /\ torn \in BOOLEAN /\ casts \in 0..CastMax

\* A fight that is not decided always has somebody in front, alive and with a
\* full bar: whoever is immobilized, burnt or blocked, and even when every
\* gauge on the field is blocked at once.
SomebodyMoves ==
  ~Decided(battle) =>
     /\ battle.actor \in Living(battle)
     /\ battle.scv[battle.actor] = ScvFull

\* The client draws on its feet exactly who is alive and whoever's death is
\* queued for it: kills by a swing, a rider, a counter, thorns, a follow-up
\* or a passive all reach it, each on the row of the unit that fell.  What it
\* is not told is a revival by a passive, outside a skill or of a unit that
\* a follow-up of the same cast has just felled.
DeathsAreShown ==
  /\ board \subseteq Living(battle) \cup battle.owed
  /\ Living(battle) \subseteq board \cup battle.unseen

\* No payload breaks the assertions of the wire: no empty group before a full
\* one, no unit twice in a group, no unit dying twice.
NeverTorn == ~torn

Frozen(u) ==
  \E s \in Statuses : /\ battle.st[u][s] = Always
                      /\ StatusRow[s].stopsGain \/ StatusRow[s].skips

\* No unit waits for ever: whoever is alive and not under a permanent block
\* or stun comes to the front again.
NobodyStarves ==
  \A u \in Orders :
    (Up(battle, u) /\ ~Frozen(u)) ~>
      (battle.actor = u \/ ~Up(battle, u) \/ Frozen(u) \/ Over(battle))

=============================================================================
