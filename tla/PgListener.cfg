\* Three losses, of a connection in use or of one being made.
CONSTANTS
    MaxLosses = 3
    NoClient = NoClient
SPECIFICATION ListenerSpec
INVARIANT OneListener
PROPERTY MissedCatchesUp
\* A listener that is connected or stopped has nothing to do.
CHECK_DEADLOCK FALSE
