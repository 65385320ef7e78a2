CONSTANTS
  loader = loader
  runtime = runtime
  v1 = v1
  v2 = v2
  volA = volA
  Foreign = foreign
  Absent = absent
  None = none
  Procs = {p1}
  Ids = {t1}
  EspTargets = {loader}
  DataTargets = {runtime}
  Volumes = {volA}
  Contents = {v1, v2, foreign}
  Initial <- MCInitial
  Payloads <- MCPayloads
  MaxFaults = 1
  MaxEdits = 0
SPECIFICATION Spec
INVARIANTS
  InterruptionIsPending
