\* See the module for the bounds of the two deployments.
SPECIFICATION Spec
CONSTANTS
    e = e  f = f
    Entities = {e, f}
    Callbacks = {TRUE, FALSE}
    MaxEmits <- MCEmits
    MaxFaults <- MCFaults
    MaxForeign = 1
INVARIANTS TypeOK EntityOrder CommittedWasRead SentDelivered OneUnsentEach CalledBeforeSent
PROPERTIES ShutdownEnds EventuallyRead
CHECK_DEADLOCK FALSE
