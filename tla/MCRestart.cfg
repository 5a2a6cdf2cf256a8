\* The instance of MCTransactionStream.cfg.  See the module for the bounds of the two deployments.
SPECIFICATION Spec
CONSTANTS
    e = e  f = f
    Entities = {e, f}
    Callbacks = {TRUE, FALSE}
    MaxEmits <- MCEmits
    MaxFaults <- MCFaults
    MaxForeign = 1
INVARIANT UpToDate
CHECK_DEADLOCK FALSE
