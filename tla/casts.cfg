\* One fed roster of at most three casts, or four pieces on two casts.
SPECIFICATION CastsSpec
CONSTANTS
  Casts = {1, 2}
  RuneSlots = {1}
  MirrorSlots = {2, 3}
  PactSlots = {4}
  Kinds <- MCKinds
  KindRow <- MCKindRow
  FuseNum = 2
  MaxLevel = 1
  Careful = TRUE
  OldSave <- MCOldSave
  GearCoins = 1
  RollsMax = 2
  BatchMax = 2
  Chars = {"lucifer", "page"}
  CharRow <- MCCharRow
  StarterTeam <- MCTeam
  TutorialCasts = {"lucifer"}
  TutorialLv = 1
  TutorialLimit = 2
  Forms = {1}
  FormSlots = 1
  LvPerStar = 1
  LvPerEx = 1
  MaxStar = 2
  MaxEx = 1
  MaxPlus = 1
  MaxUltra = 1
  UltraStep = 1
  MaxBook = 2
  MaxTotal = 3
  MinInherit = 4
  Groups = {1}
  ImpartLimit = 1
  Skins = {1}
  Coins = 1
  Gems = 1
  CastsMax = 3
  EditsMax = 1
INVARIANTS WornOnce ClientShowsSent NamesAreLive LevelsAreFed
PROPERTIES GrownIsKept
