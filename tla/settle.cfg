\* Two fights over two days and two lost connections; the fights run out, so
\* it may stop.
SPECIFICATION Spec
CONSTANTS
  Fights = {f1, f2}
  NoFight = NoFight
  Stages <- MCStages
  OddSets = {1, 2}
  EvenSets = {3}
  ShardSlots = {1, 2, 3}
  PanelMax = 3
  MaxStar = 2
  MaxRank = 2
  Corridor = 3
  Tiers = 3
  Pieces = 3
  Pool <- MCPool
  Passes = 1
  Legs = 2
  MaxLosses = 2
  LastDay = 1
SYMMETRY FightSymmetry
INVARIANTS OpenFightSurvives PaidOnce ShardKeptOnce DropsAsListed
CHECK_DEADLOCK FALSE
