SPECIFICATION Spec
CONSTANTS
  home = home
  coll = coll
  file = file
  Path = {home, coll}
  Parent <- Flat
  NoPath = NoPath
  Collections = {home, coll}
  Worker = {w1}
  NoWorker = NoWorker
  Mortal = {}
  Undeletable = {}
  Faulty = {}
  Token = {t1}
  Seconds = {1, 2}
  MaxTime = 3
INVARIANTS MembersStayLocked
