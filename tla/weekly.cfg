\* A week of three days and the first hours of the next.
SPECIFICATION GuildSpec
CONSTANTS
  DaysAWeek = 3
  MaxTimes = 1
  Damages = {4}
  Difficulties = {2}
  LowestRung = 4
  Latest = 6
  MaxLosses = 2
  SignLimits <- MCSignLimits
  Foundings = 1
INVARIANTS PaidOnceAsEarned TriesWithinTopUps SettledWithinWeek ToldOnce SignedOncePerGuild
