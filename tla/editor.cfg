\* The save editor beside three connections of one player.
SPECIFICATION EdSpec
CONSTANTS
  Conns = {c1, c2, c3}
  Pids = {p1}
  Effects = {e1, e2}
  Ids = {d1, d2, d3, d4}
  None = None
  Relogin = FALSE
SYMMETRY Symmetry
INVARIANTS IdentitiesHold QuietEditKept
