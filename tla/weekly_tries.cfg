\* A login tops the passes up again on a day whose allowance is used up.
SPECIFICATION GuildSpec
CONSTANTS
  DaysAWeek = 2
  MaxTimes = 1
  Damages = {3, 4}
  Difficulties = {1, 2}
  LowestRung = 4
  Latest = 7
  MaxLosses = 2
  SignLimits <- MCSignLimits
  Foundings = 0
INVARIANT TriesBounded
