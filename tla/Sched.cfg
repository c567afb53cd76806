SPECIFICATION Spec
CONSTANTS
  NPROC = 2
  TIME_SLICE = 1
  MAX_TIME_SLICE = 1
  SLICE_DEBT = 1
INVARIANTS SchedSafe
PROPERTIES RunsAgain SyncHappens
