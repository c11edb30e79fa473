SPECIFICATION Spec
CONSTANTS
  home = home
  coll = coll
  file = file
  Path = {home, coll, file}
  Parent <- Deep
  NoPath = NoPath
  Collections = {home, coll}
  Worker = {w1}
  NoWorker = NoWorker
  Mortal = {}
  Undeletable = {}
  Faulty = {coll}
  Token = {t1}
  Seconds = {1}
  MaxTime = 2
PROPERTIES LockToldWhole
