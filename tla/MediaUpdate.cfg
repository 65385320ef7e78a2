CONSTANTS
  loader = loader
  runtime = runtime
  v1 = v1
  v2 = v2
  volA = volA
  Foreign = foreign
  Absent = absent
  None = none
  Procs = {p1, p2}
  Ids = {t1, t2}
  EspTargets = {loader}
  DataTargets = {runtime}
  Volumes = {volA, volB}
  Contents = {v1, v2, foreign}
  Initial <- MCInitial
  Payloads <- MCPayloads
  MaxFaults = 1
  MaxEdits = 1
SPECIFICATION Spec
INVARIANTS
  PendingIsRecoverable
  RuntimeBeforeLoader
PROPERTIES
  NoContentLost
  OneUnfinished
  FinishedIsUniform
  UpdaterFinishes
  RecoveryClears
