\* Two waves of up to two mobs, and a boss fight; the client that asks aside
\* may be wedged or parked, so the system may stop.
SPECIFICATION FairSpec
CONSTANTS
  p1 = p1
  p2 = p2
  Party = {p1, p2}
  Slots = {e1, e2}
  NoOne = NoOne
  WaveMax = 2
  Fights <- MCFights
INVARIANTS AgreeOnStanding NeverStuck
PROPERTIES OnePush JudgePays DeathsAreTold
CHECK_DEADLOCK FALSE
