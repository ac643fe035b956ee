\* Images, files and pairs of hashes at the boundaries.
CONSTANTS
    Sizes <- MCSizes
    Files <- MCFiles
    MinFileBytes = 20
    MaxFileBytes = 80
    Faces <- MCFaces
    FrameEdge = 20
    FacePercent = 15
    HashRows = 2
    HashColumns = 2
    Greys <- MCGreys
SPECIFICATION AnalysisSpec
INVARIANTS
    UploadChecksAgree
    QuadrantsFit
    TilesFit
    JudgedAlike
    DistanceIsBits
\* A subject has one result.
CHECK_DEADLOCK FALSE
