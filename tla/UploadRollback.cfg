SPECIFICATION Spec
CONSTANTS
  Object = {o1}
  Temp = {t1}
  Worker = {w1, w2}
  NoWorker = NoWorker
  Original = {}
  Deletable = {}
  Rollbacks = {FALSE}
  Starts = {}
  BodyLength = 3
  TxBuffer = 2
SYMMETRY Symmetric
PROPERTIES RollbackOwnOnly
