SPECIFICATION Spec
CONSTANTS
  home = home
  coll = coll
  file = file
  Path = {home, coll, file}
  Parent <- Deep
  NoPath = NoPath
  Collections = {home, coll}
  Worker = {w1, w2}
  NoWorker = NoWorker
  Mortal = {}
  Undeletable = {coll}
  Faulty = {coll}
  Token = {t1}
  Seconds = {0, 2}
  MaxTime = 3
SYMMETRY Symmetric
INVARIANTS TypeOK OneRootPerToken
PROPERTIES LockCoversTree
