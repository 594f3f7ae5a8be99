-------------------------------- MODULE Drops --------------------------------
(***************************************************************************)
(* What a clear of a stage drops, and what the stage screen says it may    *)
(* drop (battle.py).  The two are separate functions over the same design  *)
(* rows, one rolling and one listing.                                      *)
(*                                                                         *)
(* A weight is kept as "possible or not" and an amount only where it is    *)
(* shared out among the waves; a roll is a set of outcomes.  A piece is    *)
(* what it is, of which grade, and for a starshard its set, slot and rank. *)
(***************************************************************************)
EXTENDS Integers, SequencesExt

CONSTANTS
  Stages,    \* [stage -> its design row]
  OddSets, EvenSets,  \* starshard sets of Mon/Wed/Fri, and of the other days
  ShardSlots,         \* STARSHARD_TEMPLE_SLOTS
  PanelMax,           \* STARSHARD_PANEL_MAX
  MaxStar, MaxRank,   \* of a starshard
  Corridor,  \* floors of the transcend corridor
  Tiers,     \* gremlin piece tiers
  Pieces,    \* GREMLIN_PIECES_PER_CLEAR
  Pool       \* DROP_POOL_WEIGHTS: members without a tier

DropsAssumption ==
  /\ OddSets # {} /\ EvenSets # {} /\ ShardSlots # {} /\ IsFiniteSet(ShardSlots)
  /\ {PanelMax, MaxStar, Corridor, Tiers, Pieces} \subseteq Nat \ {0}
  /\ MaxRank \in Nat
  /\ \A s \in DOMAIN Stages :
       /\ Stages[s].book \in {"", "temple", "corridor"} /\ Stages[s].waves \in Nat \ {0}
       /\ Stages[s].known # <<>> => Stages[s].book = ""
ASSUME DropsAssumption

Piece(what, grade) == [what |-> what, grade |-> grade, set |-> 0, slot |-> 0, rank |-> 0]
Shard(set, slot, rank, star) ==
  [what |-> "shard", grade |-> star, set |-> set, slot |-> slot, rank |-> rank]
Icon(set, star) == Shard(set, 0, 0, star)

Drop(piece, n) == [piece |-> piece, n |-> n]
One(piece) == <<Drop(piece, 1)>>

-----------------------------------------------------------------------------
(* The Starshard Temple.                                                   *)

Clamped(n, low, high) == IF n < low THEN low ELSE IF n > high THEN high ELSE n

\* _itemrank_str: the best and the worst (star, rank) of a floor.  A best rank
\* of 0 is no cap.
Bounds(row) ==
  LET cap == IF row.best[2] = 0 THEN MaxRank ELSE row.best[2]
      lowStar == Clamped(row.worst[1], 1, MaxStar)
      lowRank == Clamped(row.worst[2], 0, MaxRank)
  IN [stars |-> lowStar..Clamped(row.best[1], lowStar, MaxStar),
      ranks |-> lowRank..Clamped(cap, lowRank, MaxRank)]

\* The sets of the day, which begins at 4AM; day 0 is a Monday.
SetsForDay(day) == IF day % 7 \in {0, 2, 4} THEN OddSets ELSE EvenSets

IsTemple(s) == Stages[s].book = "temple"
TempleStars(s) == IF IsTemple(s) THEN Bounds(Stages[s]).stars ELSE {}
TempleRanks(s) == IF IsTemple(s) THEN Bounds(Stages[s]).ranks ELSE {}

TemplePool(s, day) == {Icon(set, star) : set \in SetsForDay(day), star \in TempleStars(s)}

\* One shard per wave, on slots dealt from a shuffled deck.
TempleDrops(s, day) ==
  LET count == Clamped(Clamped(Stages[s].waves, 1, PanelMax), 1, Cardinality(ShardSlots))
      slots == {f \in [1..count -> ShardSlots] : IsInjective(f)}
      kinds == SetsForDay(day) \X TempleRanks(s) \X TempleStars(s)
  IN {[i \in 1..count |-> Drop(Shard(k[i][1], f[i], k[i][2], k[i][3]), 1)] :
        f \in slots, k \in [1..count -> kinds]}

-----------------------------------------------------------------------------
(* The transcend corridor.                                                 *)

\* The tiers within one and a half of where the floor stands between the
\* first tier and the last.
CorridorTiers(s) ==
  LET steps == IF Corridor > 1 THEN Corridor - 1 ELSE 1
      off(t) == 2 * ((t - 1) * steps - (Stages[s].sort - 1) * (Tiers - 1))
  IN IF Stages[s].book # "corridor" THEN {}
     ELSE {t \in 1..Tiers : off(t) < 3 * steps /\ off(t) > -3 * steps}

CorridorPool(s) == {Piece("gremlin", t) : t \in CorridorTiers(s)}

PiecesOf(s) == Pieces * (IF Stages[s].double THEN 2 ELSE 1)

\* The pieces of a clear, one stack per wave and the remainder on the first
\* ones; the empty stacks, all at the end, are left out.
Shares(count, waves) ==
  LET base == count \div waves
      extra == count % waves
      filled == IF base > 0 THEN waves ELSE extra
  IN [i \in 1..filled |-> base + (IF i <= extra THEN 1 ELSE 0)]

CorridorDrops(s) ==
  LET shares == Shares(PiecesOf(s), Stages[s].waves)
  IN {[i \in DOMAIN shares |-> Drop(Piece("gremlin", t), shares[i])] :
        t \in CorridorTiers(s)}

-----------------------------------------------------------------------------
(* Kizuna quests and material dungeons pay in what their clear reward is.  *)

ClearReward(s) == Stages[s].reward
IsKarma(s) == ClearReward(s).what = "karma"
IsFarm(s) == Stages[s].farm /\ ClearReward(s).n > 0

KizunaDrops(s) == {One(Piece("karma", ClearReward(s).grade))}

DungeonDrops(s) ==
  {[i \in 1..Stages[s].waves |-> Drop(Piece(ClearReward(s).what, ClearReward(s).grade), 1)]}

-----------------------------------------------------------------------------
(* Ordinary stages: one roll of the pool per wave, and a finale's extra.   *)

ShardOf(s) == IF Stages[s].quest THEN {Piece("storyshard", 1)} ELSE {}

Special(s) ==
  IF ~Stages[s].finale THEN {}
  ELSE {Piece(IF Stages[s].difficulty = 3 THEN "stardust" ELSE "legacy", 0)}

\* generated_drop_pool, without the internal items it holds back.
GeneratedPool(s) ==
  {Piece("coin", 0)} \cup {Piece(p, 0) : p \in Pool}
  \cup {Piece("trainer", Stages[s].rung), Piece("gremlin", Stages[s].rung)}
  \cup ShardOf(s) \cup Special(s)

\* Variant: the tier of a piece is that of the next rung.
PoolRollNext(s) ==
  {Piece("coin", 0)} \cup {Piece(p, 0) : p \in Pool} \cup ShardOf(s)
  \cup {Piece("trainer", Stages[s].rung), Piece("gremlin", Stages[s].rung + 1)}

PoolRoll(s) ==
  {Piece("coin", 0)} \cup {Piece(p, 0) : p \in Pool} \cup ShardOf(s)
  \cup {Piece("trainer", Stages[s].rung), Piece("gremlin", Stages[s].rung)}

GeneratedDrops(s) ==
  LET rolls == [1..Stages[s].waves -> {Drop(p, 1) : p \in PoolRoll(s)}]
  IN rolls \cup {r \o One(p) : r \in rolls, p \in Special(s)}

-----------------------------------------------------------------------------
(* stage_drops_for and stage_drop_preview.                                 *)

\* Which rule applies: what was seen on footage wins, then the special books.
Origin(s) ==
  IF Stages[s].known # <<>> THEN "known"
  ELSE IF Stages[s].book # "" THEN Stages[s].book
  ELSE IF IsKarma(s) THEN "karma"
  ELSE IF IsFarm(s) THEN "farm" ELSE "generated"

StageDrops(s, day) ==
  CASE Origin(s) = "known" -> {Stages[s].known}
    [] Origin(s) = "temple" -> TempleDrops(s, day)
    [] Origin(s) = "corridor" -> CorridorDrops(s)
    [] Origin(s) = "karma" -> KizunaDrops(s)
    [] Origin(s) = "farm" -> DungeonDrops(s)
    [] Origin(s) = "generated" -> GeneratedDrops(s)

\* How a dropped piece is listed: a shard by its set and star.
ListedAs(piece) ==
  IF piece.what = "shard" THEN Icon(piece.set, piece.grade) ELSE piece

Preview(s, day) ==
  CASE Origin(s) = "known" -> {ListedAs(Stages[s].known[i].piece) : i \in DOMAIN Stages[s].known}
    [] Origin(s) = "temple" -> TemplePool(s, day)
    [] Origin(s) = "corridor" -> CorridorPool(s)
    [] Origin(s) \in {"karma", "farm"} ->
         {Piece(ClearReward(s).what, ClearReward(s).grade)}
    [] Origin(s) = "generated" -> GeneratedPool(s)

Total(drops, what) ==
  SumFunctionOnSet([i \in DOMAIN drops |-> drops[i].n],
                   {i \in DOMAIN drops : drops[i].piece.what = what})

=============================================================================
