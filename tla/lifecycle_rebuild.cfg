CONSTANTS
    Reloaders = {r1}
    MaxEdits = 3
SPECIFICATION LifecycleSpec
CHECK_DEADLOCK FALSE
INVARIANT RebuildsAfterStopError
