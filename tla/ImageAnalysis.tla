---------------------------- MODULE ImageAnalysis ----------------------------
(***************************************************************************)
(* What decides about an image: the format and size checks of the upload   *)
(* on both sides (fileSignature.ts, prepare, validateFile.ts), and the     *)
(* geometry of the worker's measures: the quadrants of faceDetector.ts and *)
(* the merge of what they find, the tiles of blur.ts, the rules of         *)
(* rules.ts and the hash of perceptualHash.ts.  All of it is without       *)
(* state: a behaviour takes one subject and computes its result.           *)
(***************************************************************************)
EXTENDS Integers, Sequences, SequencesExt, FiniteSets, FiniteSetsExt

CONSTANTS
    Sizes,         \* widths and heights of decoded images
    Files,         \* files, by what the checks read of them
    MinFileBytes, MaxFileBytes,   \* MIN_FILE_BYTES; MAX_UPLOAD_BYTES, also MAX_FILE_BYTES
    Faces,         \* faces, as pixel boxes in a frame of FrameEdge
    FrameEdge, FacePercent,       \* FACE_MIN_HEIGHT_RATIO
    HashRows, HashColumns, Greys       \* 8, 8 and 0 .. 255

ASSUME SizesAssumption == Sizes \subseteq Nat \ {0}
ASSUME FilesAssumption ==
    /\ MinFileBytes \in Nat /\ MaxFileBytes \in Nat
    /\ Files \subseteq [magic : STRING, named : BOOLEAN, len : Nat, box : Nat, brands : SUBSET Nat]

ASSUME FacesAssumption ==
    /\ FrameEdge \in Nat \ {0}
    /\ Faces \subseteq [x : Nat, y : Nat, width : Nat \ {0}, height : Nat \ {0}]
ASSUME HashAssumption == HashRows \in Nat \ {0} /\ HashColumns \in Nat \ {0}

VARIABLES subject, result
analysisVars == <<subject, result>>

Null == [kind |-> "null"]

Smaller(a, b) == IF a < b THEN a ELSE b
Larger(a, b)  == IF a > b THEN a ELSE b

-----------------------------------------------------------------------------
(* Formats.  A file's head is its magic, the length of the file and of its *)
(* ftyp box, and the 4-byte words in which a HEVC brand can be read.       *)

\* Mutant: the minor version is taken for a brand.
DetectMinor(f) ==
    IF f.magic # "ftyp" THEN f.magic
    ELSE IF f.len >= 16 /\ \E k \in f.brands : k = 2 \/ 4 * k + 4 <= Smaller(f.box, f.len)
         THEN "heic" ELSE "none"

\* detectImageFormat: the major brand, or a compatible one that ends within the box.
DetectImageFormat(f) ==
    IF f.magic # "ftyp" THEN f.magic
    ELSE IF /\ f.len >= 16
            /\ \E k \in f.brands : k = 2 \/ (k > 3 /\ 4 * k + 4 <= Smaller(f.box, f.len))
         THEN "heic" ELSE "none"

\* sniffFormat: any brand of the first 64 bytes but for the minor version.
SniffFormat(f) ==
    IF f.magic # "ftyp" THEN f.magic
    ELSE IF \E k \in f.brands : k \in {2} \cup 4 .. 15 /\ 4 * k + 4 <= f.len
         THEN "heic" ELSE "none"

\* validateFile; a name or a MIME type may be wrong as well.
ValidateFile(f) ==
    IF f.len = 0 THEN {"EMPTY_FILE"}
    ELSE {c \in {"UNSUPPORTED_FORMAT"} : ~f.named \/ SniffFormat(f) = "none"}
             \cup {c \in {"FILE_TOO_LARGE"} : f.len > MaxFileBytes}

\* The upload route's limit, then prepare: the first reason, or the status pending.
Prepare(f) ==
    IF f.len > MaxFileBytes THEN "FILE_TOO_LARGE"
    ELSE IF DetectImageFormat(f) = "none" THEN "UNSUPPORTED_FORMAT"
    ELSE IF f.len < MinFileBytes THEN "FILE_TOO_SMALL" ELSE "pending"

-----------------------------------------------------------------------------
(* Crops.  Per axis, a span is [start, length]. *)

Grid == 4

\* The tiles' spans along an axis; a frame whose tiles were thinner than 3 on either
\* axis is one tile.
Tiles(n, whole) ==
    IF whole THEN {[start |-> 0, length |-> n]}
    ELSE {[start |-> k * (n \div Grid), length |-> n \div Grid] : k \in 0 .. Grid - 1}

\* Mutant: the kernel runs up to the frame's last pixel.
MeasuredToEdge(s, n) == Larger(s.start, 1) .. Smaller(s.start + s.length, n) - 1

\* laplacianVariance: the pixels of a span whose neighbours are in the frame.
Measured(s, n) == Larger(s.start, 1) .. Smaller(s.start + s.length, n - 1) - 1

Round10(x) == (x + 5) \div 10

\* Mutant: the second quadrant starts where the first one ends.
QuadrantNoOverlap(second, n) ==
    LET start == IF second THEN Round10(6 * n) ELSE 0
    IN  [start |-> start, length |-> Smaller(n - start, Round10(6 * n))]

\* toPixelRegion: 60% of the axis from either end.
Quadrant(second, n) ==
    LET start == IF second THEN Round10(4 * n) ELSE 0
    IN  [start |-> start, length |-> Smaller(n - start, Round10(6 * n))]

-----------------------------------------------------------------------------
(* Faces: boxes in pixels, with a score and their place among those found.  *)

\* The quadrants in the order of QUADRANT_ORIGINS.
Origins == <<[x |-> FALSE, y |-> FALSE], [x |-> TRUE, y |-> FALSE],
             [x |-> FALSE, y |-> TRUE], [x |-> TRUE, y |-> TRUE]>>

Within(start, length, s) == s.start <= start /\ start + length <= s.start + s.length

SpanX(q) == Quadrant(Origins[q].x, FrameEdge)
SpanY(q) == Quadrant(Origins[q].y, FrameEdge)

\* detectRegion on a crop, external: the faces that lie in it, perhaps a pixel off.
Sees(q, f) == Within(f.x, f.width + 1, SpanX(q)) /\ Within(f.y, f.height, SpanY(q))

DetectRegion(q, faces, views) ==
    {[x      |-> faces[k].x - SpanX(q).start + views[q].off,
      y      |-> faces[k].y - SpanY(q).start,
      width  |-> faces[k].width, height |-> faces[k].height,
      score  |-> views[q].score, nth    |-> q * Len(faces) + k] :
        k \in {k \in DOMAIN faces : Sees(q, faces[k])}}

\* Mutant: the crop's place in the frame is forgotten.
MapToCrop(b, q) == b

\* mapToFullImage.
MapToFullImage(b, q) ==
    [b EXCEPT !.x = @ + SpanX(q).start, !.y = @ + SpanY(q).start]

\* iou > 0.3.
Common(a, b, p, l) == Larger(0, Smaller(a[p] + a[l], b[p] + b[l]) - Larger(a[p], b[p]))
Overlap(a, b) ==
    LET both == Common(a, b, "x", "width") * Common(a, b, "y", "height")
    IN  10 * both > 3 * (a.width * a.height + b.width * b.height - both)

\* The order of the stable sort.
Before(a, b) == a.score > b.score \/ (a.score = b.score /\ a.nth < b.nth)

\* suppressOverlapping, greedy: a box is kept unless it overlaps a kept one before it.
SuppressOverlapping(boxes) ==
    CHOOSE kept \in SUBSET boxes :
        \A b \in boxes : b \in kept <=> ~ \E k \in kept : Before(k, b) /\ Overlap(k, b)

Found(faces, views) ==
    UNION {{MapToFullImage(b, q) : b \in DetectRegion(q, faces, views)} : q \in DOMAIN Origins}

\* detect: the quadrants matter when the full frame shows no face.
Detect(fullFrame, faces, views) ==
    IF fullFrame # {} THEN fullFrame ELSE SuppressOverlapping(Found(faces, views))

\* evaluateContent, for what the faces decide; largestFace is the tallest.
EvaluateContent(found) ==
    {c \in {"MULTIPLE_FACES"} : Cardinality(found) > 1} \cup
    {c \in {"FACE_TOO_SMALL"} :
        found # {} /\ 100 * Max({f.height : f \in found}) < FacePercent * FrameEdge}

-----------------------------------------------------------------------------
(* The hash. *)

HashBits == HashRows * HashColumns
Images   == [(1 .. HashRows) \X (1 .. HashColumns + 1) -> Greys]

\* 1 << n.
Power2[n \in Nat] == IF n = 0 THEN 1 ELSE 2 * Power2[n - 1]

\* Brighter than the right-hand neighbour; the first pixel gives the highest bit.
Brighter(px, i) ==
    LET y == HashRows - i \div HashColumns
        x == HashColumns - (i % HashColumns)
    IN  px[<<y, x>>] > px[<<y, x + 1>>]

Bit(px, i) == IF Brighter(px, i) THEN 1 ELSE 0

\* hash = (hash << 1) | bit, after n comparisons.
HashLoop(px) ==
    LET hash[n \in Nat] == IF n = 0 THEN 0 ELSE 2 * hash[n - 1] + Bit(px, HashBits - n)
    IN  hash

\* Mutant: the hash is left unsigned.
HashUnsigned(px) == HashLoop(px)[HashBits]

\* differenceHash: two's complement in HashBits.
DifferenceHash(px) ==
    LET hash == HashLoop(px)[HashBits]
    IN  IF hash >= Power2[HashBits - 1] THEN hash - Power2[HashBits] ELSE hash

\* bit_count((phash # ?)::bit(64)), as findMostSimilarAccepted has it.
Distance(a, b) ==
    LET bit(v, i) == ((v % Power2[HashBits]) \div Power2[i]) % 2
    IN  Cardinality({i \in 0 .. HashBits - 1 : bit(a, i) # bit(b, i)})

-----------------------------------------------------------------------------
Axis  == [kind : {"axis"}, n : Sizes, whole : BOOLEAN]
File  == [kind : {"file"}, head : Files]
Views == [DOMAIN Origins -> [off : {0, 1}, score : {1, 2}]]
Apart(f, g) == f.x + f.width < g.x \/ f.y + f.height <= g.y
Photo == [kind : {"photo"}, views : Views,
          faces : {<<f>> : f \in Faces} \cup {p \in Faces \X Faces : Apart(p[1], p[2])}]
Pair  == [kind : {"pair"}, images : Images \X Images]

AnalysisInit ==
    /\ result = Null
    /\ \/ subject \in {a \in Axis : a.n \div Grid < 3 => a.whole}
       \/ subject \in File \cup Photo \cup Pair

Computes(kind, value) ==
    /\ subject.kind = kind /\ result = Null
    /\ result' = value
    /\ UNCHANGED subject

Upload == Computes("file", [browser |-> ValidateFile(subject.head),
                            server  |-> Prepare(subject.head)])

Crop == Computes("axis", [tiles     |-> Tiles(subject.n, subject.whole),
                          quadrants |-> {Quadrant(second, subject.n) : second \in BOOLEAN}])

\* The detector sees the faces in the full frame, or in the quadrants only.
Judge == Computes("photo",
             [full      |-> EvaluateContent(Detect(ToSet(subject.faces), subject.faces, subject.views)),
              quadrants |-> EvaluateContent(Detect({}, subject.faces, subject.views))])

Hash == Computes("pair", [k \in {1, 2} |-> DifferenceHash(subject.images[k])])

AnalysisNext == Upload \/ Crop \/ Judge \/ Hash
AnalysisSpec == AnalysisInit /\ [][AnalysisNext]_analysisVars

-----------------------------------------------------------------------------
Done(kind) == subject.kind = kind /\ result # Null

\* The two sniffers agree: what the browser lets through is refused for its format only
\* if it is shorter than 16 bytes or has brands past its box, and what the browser
\* refuses is accepted only if it has a brand past the first 64 bytes.
UploadChecksAgree ==
    LET f       == subject.head
        refused == result.server = "UNSUPPORTED_FORMAT"
    IN  Done("file") /\ f.named /\ f.len \in 1 .. MaxFileBytes =>
            /\ result.browser = {} /\ refused =>
                   f.len < 16 \/ \E k \in f.brands : 4 * k + 4 > f.box
            /\ result.browser # {} /\ ~refused => \E k \in f.brands : k >= 16

\* Each quadrant is a crop sharp accepts, not empty and within the frame, and a face
\* of up to a fifth of the axis lies wholly in one of the two halves, wherever it is.
QuadrantsFit ==
    Done("axis") =>
        /\ \A s \in result.quadrants : s.length > 0 /\ s.start >= 0 /\ s.start + s.length <= subject.n
        /\ \A start \in 0 .. subject.n, length \in 0 .. subject.n \div 5 :
               start + length <= subject.n =>
                   \E s \in result.quadrants : Within(start, length, s)

\* The kernel reads within the frame, every tile of 3 pixels or more measures some,
\* no pixel counts twice, and fewer than Grid columns or rows are left out at the end.
TilesFit ==
    Done("axis") =>
        /\ \A s \in result.tiles : /\ Measured(s, subject.n) \subseteq 1 .. subject.n - 2
                                   /\ s.length >= 3 => Measured(s, subject.n) # {}
        /\ \A s, t \in result.tiles : s # t => Measured(s, subject.n) \cap Measured(t, subject.n) = {}
        /\ \A x \in 1 .. subject.n - 1 - Grid : \E s \in result.tiles : x \in Measured(s, subject.n)

\* A face small enough for every place in the frame to be within some quadrant.
SmallFace(f) == /\ f.width \in 2 .. FrameEdge \div 5 - 1 /\ f.x + f.width < FrameEdge
                /\ f.height <= FrameEdge \div 5 /\ f.y + f.height <= FrameEdge

\* Small faces are judged alike whether the full frame or only the quadrants show them:
\* each counts once, however many quadrants see it, and by its height in the frame.
JudgedAlike ==
    Done("photo") /\ (\A f \in ToSet(subject.faces) : SmallFace(f)) =>
        result.full = result.quadrants

\* The hash fits a BIGINT, and the database's distance of two hashes is the number of
\* comparisons in which the images differ.
DistanceIsBits ==
    Done("pair") =>
        /\ \A k \in {1, 2} : result[k] \in -Power2[HashBits - 1] .. Power2[HashBits - 1] - 1
        /\ Distance(result[1], result[2]) =
               Cardinality({i \in 0 .. HashBits - 1 :
                   Brighter(subject.images[1], i) # Brighter(subject.images[2], i)})

=============================================================================
