\* Two connections of one player; LOGIN may be repeated on an open one.
SPECIFICATION FairSpec
CONSTANTS
  Conns = {c1, c2}
  Pids = {p1}
  Effects = {e1}
  Ids = {d1, d2}
  None = None
  Relogin = TRUE
INVARIANTS OneWriter OwnerKept
PROPERTIES LedgerSpec LoginCompletes StaleThreadEnds
