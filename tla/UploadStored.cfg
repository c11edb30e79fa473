SPECIFICATION Spec
CONSTANTS
  Object = {o1}
  Temp = {t1}
  Worker = {w1, w2}
  NoWorker = NoWorker
  Original = {o1}
  Deletable = {o1}
  Rollbacks = {TRUE, FALSE}
  Starts = {1}
  BodyLength = 3
  TxBuffer = 2
SYMMETRY Symmetric
INVARIANTS TypeOK ContainerFits
PROPERTIES OnlyWholeUploads StoredAsSent
