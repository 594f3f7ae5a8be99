SPECIFICATION Spec
CONSTANTS
  pass = pass
  coupon = coupon
  drop = drop
  gift = gift
  chest = chest
  fate = fate
  token = token
  AnyV = AnyV
  Items <- MCItems
  Worth <- MCWorth
  Boxes = {chest}
  BalanceMax = 3
  Quests <- MCQuests
  QuestRow <- MCQuestRow
  NoQuest = "none"
  AnyValue = AnyV
  Week = 2
  Rungs = 2
  RungItem <- MCRungItem
  Scenes = {"first"}
  SceneRow <- MCSceneRow
  KarmaNeed <- MCKarmaNeed
  MaxFlv = 4
  RankItem <- MCRankItem
  Pass = pass
  PassFloor = 1
  Coupon = coupon
  Drop = drop
  RunTime = 1
  Debt = 1
  Start <- MCStart
  LastTime = 3
  BootsMax = 2
  ClearsMax = 1
  SweepMax = 2
  SweepCounts = {2}
INVARIANTS StepByStep PaidOnce
CHECK_DEADLOCK FALSE
