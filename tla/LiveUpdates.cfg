\* One image, three notifications, one loss.  Images do not interact here, and the
\* verdicts differ in their section only: "rejected" stands for them.
CONSTANTS
    Images = {i1}
    Verdicts = {"rejected"}
    MaxEvents = 3
    MaxDrops = 1
SPECIFICATION LiveSpec
INVARIANTS
    LiveTypeOK
    CaughtUp
PROPERTIES
    NeverBackwards
    DeletionsArrive
\* A page that is up to date has nothing to do.
CHECK_DEADLOCK FALSE
