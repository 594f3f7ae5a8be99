\* A day whose next login is in the next week is never paid.
SPECIFICATION GuildSpec
CONSTANTS
  DaysAWeek = 2
  MaxTimes = 1
  Damages = {3, 4}
  Difficulties = {1, 2}
  LowestRung = 4
  Latest = 7
  MaxLosses = 2
  SignLimits <- MCSignLimits
  Foundings = 0
INVARIANT EveryDaySettled
