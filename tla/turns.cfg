SPECIFICATION FairSpec
CONSTANTS
  Seating <- MCSeating
  Team <- MCTeam
  MaxHp = 3
  Nobody = Nobody
  Statuses <- MCStatuses
  StatusRow <- MCRow
  Passive <- MCPassives
  Rules <- MCRules
  Has <- MCHas
  Spd <- MCSpd
  Atk <- MCAtk
  Skill <- MCSkills
  WaveMax = 2
  Lucks <- MCLucks
  CastMax = 2
INVARIANTS SomebodyMoves DeathsAreShown NeverTorn
PROPERTIES NobodyStarves
CHECK_DEADLOCK TRUE
