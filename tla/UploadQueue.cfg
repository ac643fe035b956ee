\* Three files for two slots, one failed upload.
CONSTANTS
    MaxFiles = 3
    MaxParallel = 2
    MaxFaults = 1
SPECIFICATION UploadSpec
INVARIANTS
    UploadTypeOK
    WithinParallel
    UploadingIsOpen
PROPERTY QueuedIsSent
\* A page whose uploads are all settled has nothing to do.
CHECK_DEADLOCK FALSE
