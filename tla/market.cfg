SPECIFICATION LobbySpec
CONSTANTS
  scroll = scroll
  ticket = ticket
  gem = gem
  chest = chest
  prize = prize
  AnyV = AnyV
  Items <- MCItems
  Worth <- MCWorth
  Boxes = {chest}
  BalanceMax = 4
  Quests <- MCQuests
  QuestRow <- MCQuestRow
  NoQuest = "none"
  AnyValue = AnyV
  Goods = {0, 1}
  GoodsRow <- MCGoodsRow
  Banners = {1, 2, 3}
  Debut = 1
  Mirrors = {3}
  Options <- MCOptions
  Wheels = {102}
  WheelCost <- MCWheelCost
  Slots <- MCSlots
  Bonus <- MCBonus
  DrawMax = 2
  Start <- MCStart
  Amounts = {1, 2}
  LastDay = 2
  Girls = {"levi"}
  GirlRow <- MCGirlRow
  Copies = {1, 2}
  GirlOf <- MCGirlOf
  StartCast <- MCStartCast
  KarmaMax = 4
  KarmaNext <- MCKarmaNext
  RungOf <- MCRungOf
  Presents = {"rose", "tea"}
  PresentRow <- MCPresentRow
  FirstRate = 3
  SecondRate = 2
  PresentKinds = 2
  PresentMost = 2
  Situations = {5}
  Tier <- MCTier
  Decision <- MCDecision
  Seen <- MCSeen
  ChapterOf <- MCChapterOf
  ChapterGirl <- MCChapterGirl
  NoGirl = "levi"
  MasterLadder = 6
  Answers = {0, 1}
  Difficulties = {1, 2}
  Supports = {1, 2}
  SupportMost = 1
  Pieces = {"ring", "crown"}
  PieceRow <- MCPieceRow
  SetRow <- MCSetRow
  LinkRow <- MCLinkRow
  LinkStar = 4
  LvTop = 1
  ExTop = 1
  LimitTop = 1
  Unread = 2
  WishMost = 2
INVARIANTS AllowancesHold DiamondsAccountedFor FightsAsShown TapsCountOnce
CHECK_DEADLOCK FALSE
