SPECIFICATION FairSpec
CONSTANTS
  home = home
  coll = coll
  file = file
  Path = {home, coll}
  Parent <- Flat
  NoPath = NoPath
  Collections = {home, coll}
  Worker = {w1, w2}
  NoWorker = NoWorker
  Mortal = {w1, w2}
  Undeletable = {coll}
  Faulty = {coll}
  Token = {t1}
  Seconds = {1}
  MaxTime = 2
PROPERTIES LockFileReleased
