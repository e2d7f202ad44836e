SPECIFICATION Spec
CONSTANTS
  None = None
  Requests = {r1, r2}
  Instances <- MCInstances
SYMMETRY Symmetry
INVARIANT AdministrationIsKept
PROPERTIES NothingGoesBack FullSyncIsWhole AnsweredIsStored
CHECK_DEADLOCK FALSE
