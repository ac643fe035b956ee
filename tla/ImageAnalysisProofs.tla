------------------------- MODULE ImageAnalysisProofs -------------------------
(***************************************************************************)
(* The crops of ImageAnalysis for images of every size: the quadrants of   *)
(* the face detector and the tiles of the blur score stay in the frame and *)
(* cover it, by the arithmetic of one axis.  And the format checks of the  *)
(* browser and the server, for every file; the hash and its distance, for  *)
(* every size; and the detector's fallback, for every place of a face.     *)
(* The invariants only say that a result is what the code computes.        *)
(***************************************************************************)
EXTENDS ImageAnalysis, FiniteSetTheorems, WellFoundedInduction, TLAPS

\* toPixelRegion: a crop that sharp's extract accepts, on an axis of any length.
LEMMA QuadrantInFrame ==
    ASSUME NEW n \in Nat \ {0}, NEW second \in BOOLEAN
    PROVE  LET s == Quadrant(second, n)
           IN  /\ s.start \in Nat /\ s.length \in Nat
               /\ s.length > 0 /\ s.start + s.length <= n
BY DEF Quadrant, Round10, Smaller

\* The halves overlap by a fifth: a face before the end of the first half lies in it,
\* and any other starts after the second one does.
LEMMA HalvesOverlap ==
    ASSUME NEW n \in Nat \ {0}, NEW start \in 0 .. n, NEW length \in 0 .. n \div 5,
           start + length <= n
    PROVE  \E second \in BOOLEAN : Within(start, length, Quadrant(second, n))
<1>1. CASE start + length <= Round10(6 * n)
  <2>1. Within(start, length, Quadrant(FALSE, n))
    BY <1>1 DEF Within, Quadrant, Round10, Smaller
  <2> QED BY <2>1
<1>2. CASE start + length > Round10(6 * n)
  <2>1. start >= Round10(4 * n)
    BY <1>2 DEF Round10
  <2>2. Round10(4 * n) + Round10(6 * n) >= n
    BY DEF Round10
  <2>3. Within(start, length, Quadrant(TRUE, n))
    BY <2>1, <2>2 DEF Within, Quadrant, Round10, Smaller
  <2> QED BY <2>3
<1> QED BY <1>1, <1>2 DEF Round10

-----------------------------------------------------------------------------
\* The four tiles of an axis, spelled out.
LEMMA TilesSpelledOut ==
    ASSUME NEW n \in Nat
    PROVE  LET l == n \div Grid
           IN  Tiles(n, FALSE) = {[start |-> 0, length |-> l], [start |-> l, length |-> l],
                                  [start |-> 2 * l, length |-> l], [start |-> 3 * l, length |-> l]}
<1> DEFINE l == n \div Grid
           tile(k) == [start |-> k * l, length |-> l]
<1>1. l \in Nat
  BY DEF Grid
<1>2. Tiles(n, FALSE) = {tile(k) : k \in 0 .. 3}
  BY DEF Tiles, Grid
<1>3. 0 .. 3 = {0, 1, 2, 3}
  OBVIOUS
<1>4. /\ tile(0) = [start |-> 0, length |-> l] /\ tile(1) = [start |-> l, length |-> l]
      /\ tile(2) = [start |-> 2 * l, length |-> l] /\ tile(3) = [start |-> 3 * l, length |-> l]
  BY <1>1
<1> HIDE DEF tile
<1>5. {tile(k) : k \in 0 .. 3} = {tile(0), tile(1), tile(2), tile(3)}
  BY <1>3
<1> QED BY <1>2, <1>4, <1>5 DEF l

\* So each of them is n \div 4 long, and starts at a multiple of that.
LEMMA TileStarts ==
    ASSUME NEW n \in Nat, NEW s \in Tiles(n, FALSE)
    PROVE  LET l == n \div Grid
           IN  \E k \in 0 .. 3 : s = [start |-> k * l, length |-> l]
BY DEF Tiles, Grid

\* laplacianVariance on a span of the frame: the kernel stays within it, and reads
\* something when the span has 3 pixels.
LEMMA KernelInFrame ==
    ASSUME NEW n \in Nat \ {0}, NEW s, s.start \in Nat, s.length \in Nat,
           s.start + s.length <= n
    PROVE  /\ Measured(s, n) \subseteq 1 .. n - 2
           /\ s.length >= 3 => Measured(s, n) # {}
<1>1. Measured(s, n) \subseteq 1 .. n - 2
  BY DEF Measured, Larger, Smaller
<1>2. ASSUME s.length >= 3 PROVE Larger(s.start, 1) \in Measured(s, n)
  BY <1>2 DEF Measured, Larger, Smaller
<1> QED BY <1>1, <1>2

\* Every tile lies in the frame.
LEMMA TilesInFrame ==
    ASSUME NEW n \in Nat \ {0}, NEW whole \in BOOLEAN, NEW s \in Tiles(n, whole)
    PROVE  s.start \in Nat /\ s.length \in Nat /\ s.start + s.length <= n
<1>1. CASE whole
  BY <1>1 DEF Tiles
<1>2. CASE whole = FALSE
  <2> DEFINE l == n \div Grid
  <2>1. l \in Nat /\ 4 * l <= n
    BY DEF Grid
  <2>2. PICK k \in 0 .. 3 : s = [start |-> k * l, length |-> l]
    BY <1>2, TileStarts
  <2> HIDE DEF l
  <2>3. s.length = l /\ s.start = k * l
    BY <2>2
  <2>4. k \in {0, 1, 2, 3}
    OBVIOUS
  <2> QED BY <2>1, <2>3, <2>4
<1> QED BY <1>1, <1>2

\* No pixel is measured in two tiles.
LEMMA TilesDisjoint ==
    ASSUME NEW n \in Nat \ {0}, NEW whole \in BOOLEAN,
           NEW s \in Tiles(n, whole), NEW t \in Tiles(n, whole), s # t
    PROVE  Measured(s, n) \cap Measured(t, n) = {}
<1>1. CASE whole
  BY <1>1 DEF Tiles
<1>2. CASE whole = FALSE
  <2> DEFINE l == n \div Grid
  <2>1. l \in Nat
    BY DEF Grid
  <2>2. PICK j \in 0 .. 3, k \in 0 .. 3 : /\ s = [start |-> j * l, length |-> l]
                                         /\ t = [start |-> k * l, length |-> l]
    BY <1>2, TileStarts
  <2> HIDE DEF l
  <2>3. s.length = l /\ s.start = j * l /\ t.length = l /\ t.start = k * l /\ j # k
    BY <2>2
  <2>4. j \in {0, 1, 2, 3} /\ k \in {0, 1, 2, 3}
    OBVIOUS
  <2>5. j * l \in Nat /\ k * l \in Nat /\ (j * l + l <= k * l \/ k * l + l <= j * l)
    BY <2>1, <2>3, <2>4
  <2> QED BY <2>1, <2>3, <2>5 DEF Measured, Larger, Smaller
<1> QED BY <1>1, <1>2

\* All but the last pixels, fewer than Grid and the frame's edge, are measured.
LEMMA TilesCover ==
    ASSUME NEW n \in Nat \ {0}, NEW whole \in BOOLEAN, NEW x \in 1 .. n - 1 - Grid
    PROVE  \E s \in Tiles(n, whole) : x \in Measured(s, n)
<1>1. CASE whole
  <2>1. x \in Measured([start |-> 0, length |-> n], n)
    BY DEF Measured, Larger, Smaller, Grid
  <2> QED BY <1>1, <2>1 DEF Tiles
<1>2. CASE whole = FALSE
  <2> DEFINE l == n \div Grid
             m(a) == Measured([start |-> a, length |-> l], n)
  <2>1. l \in Nat /\ n < 4 * l + 4
    BY DEF Grid
  <2>2. x \in m(0) \/ x \in m(l) \/ x \in m(2 * l) \/ x \in m(3 * l)
    BY <2>1 DEF Measured, Larger, Smaller, Grid
  <2> QED BY <1>2, <2>2, TilesSpelledOut
<1> QED BY <1>1, <1>2

-----------------------------------------------------------------------------
\* What Crop has computed, and from what.
CropsInv ==
    subject.kind = "axis" =>
        /\ subject.n \in Nat \ {0} /\ subject.whole \in BOOLEAN
        /\ result # Null =>
               result = [tiles     |-> Tiles(subject.n, subject.whole),
                         quadrants |-> {Quadrant(second, subject.n) : second \in BOOLEAN}]

\* Crop is the only action on an axis, and no subject ever changes.
LEMMA CropsInvariant == AnalysisSpec => []CropsInv
<1>1. AnalysisInit => CropsInv
  <2> SUFFICES ASSUME AnalysisInit, subject.kind = "axis" PROVE CropsInv
    BY DEF CropsInv
  <2>1. /\ subject \in File => subject.kind = "file"
        /\ subject \in Photo => subject.kind = "photo"
        /\ subject \in Pair => subject.kind = "pair"
    BY DEF File, Photo, Pair
  <2>2. subject \in Axis
    BY <2>1 DEF AnalysisInit
  <2> QED BY <2>2, SizesAssumption DEF AnalysisInit, CropsInv, Axis
<1>2. CropsInv /\ [AnalysisNext]_analysisVars => CropsInv'
  <2> SUFFICES ASSUME CropsInv, [AnalysisNext]_analysisVars, subject'.kind = "axis"
               PROVE  CropsInv'
    BY DEF CropsInv
  <2>1. CASE Crop
    BY <2>1 DEF Crop, Computes, CropsInv
  <2>2. CASE Upload \/ Judge \/ Hash
    <3>1. subject' = subject /\ subject.kind # "axis"
      BY <2>2 DEF Upload, Judge, Hash, Computes
    <3> QED BY <3>1
  <2>3. CASE UNCHANGED analysisVars
    BY <2>3 DEF analysisVars, CropsInv
  <2> QED BY <2>1, <2>2, <2>3 DEF AnalysisNext
<1> QED BY <1>1, <1>2, PTL DEF AnalysisSpec

\* Whatever the image's size, extract is never given a crop that is empty or leaves
\* the frame, and a face of up to a fifth of the axis is whole in one of the halves.
THEOREM QuadrantsAlwaysFit == AnalysisSpec => []QuadrantsFit
<1>1. CropsInv => QuadrantsFit
  <2> SUFFICES ASSUME CropsInv, Done("axis") PROVE QuadrantsFit
    BY DEF QuadrantsFit
  <2> DEFINE n == subject.n
  <2>1. n \in Nat \ {0} /\ result.quadrants = {Quadrant(second, n) : second \in BOOLEAN}
    BY DEF CropsInv, Done
  <2>2. ASSUME NEW s \in result.quadrants
        PROVE  s.length > 0 /\ s.start >= 0 /\ s.start + s.length <= n
    BY <2>1, QuadrantInFrame
  <2>3. ASSUME NEW start \in 0 .. n, NEW length \in 0 .. n \div 5, start + length <= n
        PROVE  \E s \in result.quadrants : Within(start, length, s)
    BY <2>1, <2>3, HalvesOverlap
  <2> QED BY <2>2, <2>3 DEF QuadrantsFit
<1> QED BY <1>1, CropsInvariant, PTL

\* Whatever the image's size, the blur score's kernel reads within the frame, no pixel
\* counts twice, and the tiles leave out fewer than Grid columns or rows.
THEOREM TilesAlwaysFit == AnalysisSpec => []TilesFit
<1>1. CropsInv => TilesFit
  <2> SUFFICES ASSUME CropsInv, Done("axis") PROVE TilesFit
    BY DEF TilesFit
  <2> DEFINE n == subject.n
  <2>1. /\ n \in Nat \ {0} /\ subject.whole \in BOOLEAN
        /\ result.tiles = Tiles(n, subject.whole)
    BY DEF CropsInv, Done
  <2>2. ASSUME NEW s \in result.tiles
        PROVE  /\ Measured(s, n) \subseteq 1 .. n - 2
               /\ s.length >= 3 => Measured(s, n) # {}
    BY <2>1, TilesInFrame, KernelInFrame
  <2>3. ASSUME NEW s \in result.tiles, NEW t \in result.tiles, s # t
        PROVE  Measured(s, n) \cap Measured(t, n) = {}
    BY <2>1, <2>3, TilesDisjoint
  <2>4. ASSUME NEW x \in 1 .. n - 1 - Grid
        PROVE  \E s \in result.tiles : x \in Measured(s, n)
    BY <2>1, TilesCover
  <2> QED BY <2>2, <2>3, <2>4 DEF TilesFit
<1> QED BY <1>1, CropsInvariant, PTL


-----------------------------------------------------------------------------
(* Uploads.                                                                  *)

\* A file that the browser's sniffer knows and the server's does not is too short for
\* the latter, or has its brand past the box.
LEMMA ServerStricter ==
    ASSUME NEW f \in Files, SniffFormat(f) # "none", DetectImageFormat(f) = "none"
    PROVE  f.len < 16 \/ \E k \in f.brands : 4 * k + 4 > f.box
<1>1. f.len \in Nat /\ f.box \in Nat /\ f.brands \subseteq Nat
  BY FilesAssumption
<1>2. f.magic = "ftyp"
  BY DEF SniffFormat, DetectImageFormat
<1>3. PICK k \in f.brands : k \in {2} \cup 4 .. 15 /\ 4 * k + 4 <= f.len
  BY <1>2 DEF SniffFormat
<1>4. CASE f.len >= 16
  <2>1. ~ (k = 2 \/ (k > 3 /\ 4 * k + 4 <= Smaller(f.box, f.len)))
    BY <1>2, <1>4 DEF DetectImageFormat
  <2>2. 4 * k + 4 > f.box
    BY <1>1, <1>3, <2>1 DEF Smaller
  <2> QED BY <2>2
<1> QED BY <1>1, <1>4

\* A file that the server knows and the browser does not has its brand past the first
\* 64 bytes.
LEMMA BrowserNearsighted ==
    ASSUME NEW f \in Files, SniffFormat(f) = "none", DetectImageFormat(f) # "none"
    PROVE  \E k \in f.brands : k >= 16
<1>1. f.len \in Nat /\ f.box \in Nat /\ f.brands \subseteq Nat
  BY FilesAssumption
<1>2. f.magic = "ftyp"
  BY DEF SniffFormat, DetectImageFormat
<1>3. f.len >= 16 /\ \E k \in f.brands : k = 2 \/ (k > 3 /\ 4 * k + 4 <= Smaller(f.box, f.len))
  BY <1>2 DEF DetectImageFormat
<1>4. PICK k \in f.brands : k = 2 \/ (k > 3 /\ 4 * k + 4 <= Smaller(f.box, f.len))
  BY <1>3
<1>5. 4 * k + 4 <= f.len
  BY <1>1, <1>3, <1>4 DEF Smaller
<1>6. k \notin {2} \cup 4 .. 15
  BY <1>2, <1>5 DEF SniffFormat
<1> QED BY <1>1, <1>4, <1>6

\* What Upload has computed, and from what.
ChecksInv ==
    subject.kind = "file" =>
        /\ subject.head \in Files
        /\ result # Null => result = [browser |-> ValidateFile(subject.head),
                                      server  |-> Prepare(subject.head)]

\* Upload is the only action on a file.
LEMMA ChecksInvariant == AnalysisSpec => []ChecksInv
<1>1. AnalysisInit => ChecksInv
  <2> SUFFICES ASSUME AnalysisInit, subject.kind = "file" PROVE ChecksInv
    BY DEF ChecksInv
  <2>1. /\ subject \in Axis => subject.kind = "axis"
        /\ subject \in Photo => subject.kind = "photo"
        /\ subject \in Pair => subject.kind = "pair"
    BY DEF Axis, Photo, Pair
  <2>2. subject \in File
    BY <2>1 DEF AnalysisInit
  <2> QED BY <2>2 DEF AnalysisInit, ChecksInv, File
<1>2. ChecksInv /\ [AnalysisNext]_analysisVars => ChecksInv'
  <2> SUFFICES ASSUME ChecksInv, [AnalysisNext]_analysisVars, subject'.kind = "file"
               PROVE  ChecksInv'
    BY DEF ChecksInv
  <2>1. CASE Upload
    BY <2>1 DEF Upload, Computes, ChecksInv
  <2>2. CASE Crop \/ Judge \/ Hash
    <3>1. subject' = subject /\ subject.kind # "file"
      BY <2>2 DEF Crop, Judge, Hash, Computes
    <3> QED BY <3>1
  <2>3. CASE UNCHANGED analysisVars
    BY <2>3 DEF analysisVars, ChecksInv
  <2> QED BY <2>1, <2>2, <2>3 DEF AnalysisNext
<1> QED BY <1>1, <1>2, PTL DEF AnalysisSpec

\* For every file the two sniffers disagree only where their reach differs: on short
\* files, on brands past the ftyp box, and on brands past the first 64 bytes.
THEOREM ChecksAlwaysAgree == AnalysisSpec => []UploadChecksAgree
<1>1. ChecksInv => UploadChecksAgree
  <2> DEFINE f == subject.head
             refused == result.server = "UNSUPPORTED_FORMAT"
  <2> SUFFICES ASSUME ChecksInv, Done("file"), f.named, f.len \in 1 .. MaxFileBytes
               PROVE  /\ result.browser = {} /\ refused =>
                             f.len < 16 \/ \E k \in f.brands : 4 * k + 4 > f.box
                      /\ result.browser # {} /\ ~refused => \E k \in f.brands : k >= 16
    BY DEF UploadChecksAgree
  <2>1. f \in Files /\ result = [browser |-> ValidateFile(f), server |-> Prepare(f)]
    BY DEF ChecksInv, Done
  <2> HIDE DEF f
  <2>2. ~ (f.len = 0) /\ ~ (f.len > MaxFileBytes)
    BY FilesAssumption
  <2>3. result.browser = {} <=> SniffFormat(f) # "none"
    BY <2>1, <2>2 DEF ValidateFile
  <2>4. refused <=> DetectImageFormat(f) = "none"
    BY <2>1, <2>2 DEF Prepare
  <2> QED BY <2>1, <2>3, <2>4, ServerStricter, BrowserNearsighted
<1> QED BY <1>1, ChecksInvariant, PTL

-----------------------------------------------------------------------------
(* The hash.                                                                 *)

\* Induction, with a set of naturals for the predicate.
LEMMA Inductive ==
    ASSUME NEW S, 0 \in S, \A n \in Nat : n \in S => n + 1 \in S
    PROVE  Nat \subseteq S
<1> DEFINE T == Nat \ S
<1>1. ASSUME T # {} PROVE FALSE
    <2>1. PICK m \in T : \A k \in T : <<k, m>> \notin OpToRel(<, Nat)
        BY <1>1, WFMin, NatLessThanWellFounded, Zenon
    <2>2. \A k \in T : ~(k < m)
        BY <2>1, Zenon DEF OpToRel
    <2>3. m \in Nat /\ m # 0 /\ m - 1 \notin T
        BY <2>2
    <2>4. m - 1 \in Nat /\ m - 1 \in S
        BY <2>3
    <2> QED BY <2>4
<1> QED BY <1>1

\* f has the value v0 for 0, and next gives it the one after.
Iterates(f, V, v0, next) ==
    /\ f \in [Nat -> V] /\ f[0] = v0
    /\ \A n \in Nat : f[n + 1] = next[<<n, f[n]>>]

\* Such a function exists: the recursive functions of the model are of this form.
LEMMA PrimitiveRecursion ==
    ASSUME NEW V, NEW v0 \in V, NEW next \in [Nat \X V -> V]
    PROVE  \E f : Iterates(f, V, v0, next)
<1> DEFINE Start(n) == {g \in [0 .. n -> V] :
                           /\ g[0] = v0
                           /\ \A k \in 0 .. n - 1 : g[k + 1] = next[<<k, g[k]>>]}
<1>1. \A n \in Nat : Start(n) # {}
    <2> DEFINE S == {n \in Nat : Start(n) # {}}
    <2>1. 0 \in S
        <3>1. [k \in 0 .. 0 |-> v0] \in Start(0)
            OBVIOUS
        <3> QED BY <3>1
    <2>2. ASSUME NEW n \in Nat, n \in S PROVE n + 1 \in S
        <3>1. PICK g : g \in Start(n)
            BY <2>2
        <3> DEFINE h == [k \in 0 .. n + 1 |-> IF k <= n THEN g[k] ELSE next[<<n, g[n]>>]]
        <3>2. h \in [0 .. n + 1 -> V]
            BY <3>1
        <3>3. h[0] = v0
            BY <3>1
        <3>4. ASSUME NEW k \in 0 .. n PROVE h[k + 1] = next[<<k, h[k]>>]
            <4>1. h[k] = g[k]
                OBVIOUS
            <4>2. CASE k < n
                <5>1. h[k + 1] = g[k + 1] /\ g[k + 1] = next[<<k, g[k]>>]
                    BY <3>1, <4>2
                <5> QED BY <4>1, <5>1
            <4>3. CASE k = n
                <5>1. h[n + 1] = next[<<n, g[n]>>]
                    OBVIOUS
                <5> QED BY <4>1, <4>3, <5>1
            <4> QED BY <4>2, <4>3
        <3>5. h \in Start(n + 1)
            <4> HIDE DEF h
            <4>1. 0 .. (n + 1) - 1 = 0 .. n
                OBVIOUS
            <4> QED BY <3>2, <3>3, <3>4, <4>1
        <3> QED BY <3>5
    <2> HIDE DEF S, Start
    <2>3. Nat \subseteq S
        BY <2>1, <2>2, Inductive
    <2> QED BY <2>3 DEF S
<1>2. ASSUME NEW m \in Nat, NEW n \in Nat, NEW g \in Start(m), NEW h \in Start(n)
      PROVE  \A k \in Nat : k <= m /\ k <= n => g[k] = h[k]
    <2> DEFINE S == {k \in Nat : k <= m /\ k <= n => g[k] = h[k]}
    <2>1. 0 \in S
        OBVIOUS
    <2>2. ASSUME NEW k \in Nat, k \in S PROVE k + 1 \in S
        <3>1. ASSUME k + 1 <= m, k + 1 <= n PROVE g[k + 1] = h[k + 1]
            <4>1. g[k] = h[k] /\ k \in 0 .. m - 1 /\ k \in 0 .. n - 1
                BY <2>2, <3>1
            <4> QED BY <4>1
        <3> QED BY <3>1
    <2> HIDE DEF S, Start
    <2>3. Nat \subseteq S
        BY <2>1, <2>2, Inductive
    <2> QED BY <2>3 DEF S
<1> DEFINE part(n) == CHOOSE g : g \in Start(n)
<1>3. \A n \in Nat : part(n) \in Start(n)
    BY <1>1
<1> DEFINE f == [n \in Nat |-> part(n)[n]]
<1>4. f \in [Nat -> V]
    <2>1. ASSUME NEW n \in Nat PROVE part(n)[n] \in V
        <3>1. part(n) \in [0 .. n -> V]
            BY <1>3
        <3> HIDE DEF part
        <3> QED BY <3>1
    <2> HIDE DEF part
    <2> QED BY <2>1
<1>5. f[0] = v0
    <2>1. part(0)[0] = v0
        BY <1>3
    <2> HIDE DEF part
    <2> QED BY <2>1
<1>6. ASSUME NEW n \in Nat PROVE f[n + 1] = next[<<n, f[n]>>]
    <2> HIDE DEF part
    <2>1. part(n + 1)[n + 1] = next[<<n, part(n + 1)[n]>>]
        BY <1>3
    <2>2. part(n + 1)[n] = part(n)[n]
        <3> HIDE DEF Start
        <3> QED BY <1>2, <1>3
    <2> QED BY <2>1, <2>2
<1> HIDE DEF f
<1> QED BY <1>4, <1>5, <1>6 DEF Iterates

\* An appended bit does not reach the higher ones.
LEMMA ShiftedOut ==
    ASSUME NEW h \in Nat, NEW p \in Nat \ {0}, NEW b \in {0, 1}
    PROVE  (2 * h + b) \div (2 * p) = h \div p
OBVIOUS

\* Each power is twice the one before.
LEMMA Powers ==
    /\ Power2[0] = 1
    /\ \A n \in Nat : Power2[n] \in Nat \ {0} /\ Power2[n + 1] = 2 * Power2[n]
<1> DEFINE V == Nat \ {0}
           next == [p \in Nat \X V |-> 2 * p[2]]
           Def(f) == [n \in Nat |-> IF n = 0 THEN 1 ELSE 2 * f[n - 1]]
<1>1. PICK f : Iterates(f, V, 1, next)
  <2>1. next \in [Nat \X V -> V] /\ 1 \in V
    OBVIOUS
  <2> HIDE DEF next, V
  <2> QED BY <2>1, PrimitiveRecursion
<1>a. f \in [Nat -> V] /\ f[0] = 1 /\ \A n \in Nat : f[n + 1] = 2 * f[n]
  BY <1>1 DEF Iterates
<1>2. ASSUME NEW n \in Nat PROVE f[n] = IF n = 0 THEN 1 ELSE 2 * f[n - 1]
  <2>1. CASE n # 0
    <3>1. n - 1 \in Nat /\ (n - 1) + 1 = n
      BY <2>1
    <3> QED BY <1>a, <2>1, <3>1
  <2> QED BY <1>a, <2>1
<1>3. f = Def(f)
  BY <1>a, <1>2
<1>4. Power2 = Def(Power2)
  BY <1>3 DEF Power2
<1>5. \A n \in Nat : Power2[n] = IF n = 0 THEN 1 ELSE 2 * Power2[n - 1]
  BY <1>4
<1> HIDE DEF Def
<1>6. Power2[0] = 1 /\ \A n \in Nat : Power2[n + 1] = 2 * Power2[n]
  BY <1>5
<1> DEFINE S == {n \in Nat : Power2[n] \in V}
<1>7. 0 \in S /\ \A n \in Nat : n \in S => n + 1 \in S
  BY <1>6
<1> HIDE DEF S
<1>8. Nat \subseteq S
  BY <1>7, Inductive
<1> QED BY <1>6, <1>8 DEF S

\* The loop shifts the hash and appends a bit.
LEMMA HashShifts ==
    ASSUME NEW px
    PROVE  /\ HashLoop(px)[0] = 0
           /\ \A n \in Nat :
                  /\ HashLoop(px)[n] \in Nat
                  /\ HashLoop(px)[n + 1] = 2 * HashLoop(px)[n] + Bit(px, HashBits - (n + 1))
<1> DEFINE b(n) == Bit(px, HashBits - n)
           next == [p \in Nat \X Nat |-> 2 * p[2] + b(p[1] + 1)]
           Def(f) == [n \in Nat |-> IF n = 0 THEN 0 ELSE 2 * f[n - 1] + b(n)]
<1>1. \A n : b(n) \in {0, 1}
  BY DEF Bit
<1> HIDE DEF b
<1>2. PICK f : Iterates(f, Nat, 0, next)
  <2>1. next \in [Nat \X Nat -> Nat]
    BY <1>1
  <2> HIDE DEF next
  <2> QED BY <2>1, PrimitiveRecursion
<1>a. f \in [Nat -> Nat] /\ f[0] = 0 /\ \A n \in Nat : f[n + 1] = 2 * f[n] + b(n + 1)
  BY <1>2 DEF Iterates
<1>3. ASSUME NEW n \in Nat PROVE f[n] = IF n = 0 THEN 0 ELSE 2 * f[n - 1] + b(n)
  <2>1. CASE n # 0
    <3>1. n - 1 \in Nat /\ (n - 1) + 1 = n
      BY <2>1
    <3> QED BY <1>a, <2>1, <3>1
  <2> QED BY <1>a, <2>1
<1>4. f = Def(f)
  BY <1>a, <1>3
<1>5. HashLoop(px) = Def(HashLoop(px))
  BY <1>4 DEF HashLoop, b
<1> DEFINE h == HashLoop(px)
<1>6. \A n \in Nat : h[n] = IF n = 0 THEN 0 ELSE 2 * h[n - 1] + b(n)
  BY <1>5
<1> HIDE DEF Def, h
<1>7. h[0] = 0 /\ \A n \in Nat : h[n + 1] = 2 * h[n] + b(n + 1)
  BY <1>6
<1> DEFINE S == {n \in Nat : h[n] \in Nat}
<1>8. 0 \in S /\ \A n \in Nat : n \in S => n + 1 \in S
  BY <1>1, <1>7
<1> HIDE DEF S
<1>9. Nat \subseteq S
  BY <1>8, Inductive
<1> QED BY <1>7, <1>9 DEF S, h, b

\* After n comparisons the hash has n bits, those of the comparisons in their order.
LEMMA HashDigits ==
    ASSUME NEW px
    PROVE  \A n \in Nat :
               /\ HashLoop(px)[n] < Power2[n]
               /\ \A i \in 0 .. n - 1 :
                      (HashLoop(px)[n] \div Power2[i]) % 2 = Bit(px, HashBits - n + i)
<1> DEFINE h == HashLoop(px)
           b(i) == Bit(px, i)
           ok(n) == /\ h[n] < Power2[n]
                    /\ \A i \in 0 .. n - 1 : (h[n] \div Power2[i]) % 2 = b(HashBits - n + i)
           S == {n \in Nat : ok(n)}
<1>1. h[0] = 0 /\ \A n \in Nat : h[n] \in Nat /\ h[n + 1] = 2 * h[n] + b(HashBits - (n + 1))
  BY HashShifts
<1>2. \A i : b(i) \in {0, 1}
  BY DEF Bit
<1>3. HashBits \in Int
  BY HashAssumption DEF HashBits
<1> HIDE DEF h, b
<1>4. 0 \in S
  BY <1>1, Powers
<1>5. ASSUME NEW n \in Nat, n \in S PROVE n + 1 \in S
  <2> DEFINE last == b(HashBits - (n + 1))
  <2>1. h[n] \in Nat /\ h[n + 1] = 2 * h[n] + last /\ last \in {0, 1}
    BY <1>1, <1>2
  <2>2. Power2[n] \in Nat /\ Power2[n + 1] = 2 * Power2[n]
    BY Powers
  <2> HIDE DEF last
  <2>3. h[n + 1] < Power2[n + 1]
    BY <1>5, <2>1, <2>2
  <2>4. ASSUME NEW i \in 0 .. n
        PROVE  (h[n + 1] \div Power2[i]) % 2 = b(HashBits - (n + 1) + i)
    <3>1. CASE i = 0
      <4>1. Power2[i] = 1 /\ HashBits - (n + 1) + i = HashBits - (n + 1)
        BY <1>3, <3>1, Powers
      <4>2. ((2 * h[n] + last) \div 1) % 2 = last
        BY <2>1
      <4> QED BY <2>1, <4>1, <4>2 DEF last
    <3>2. CASE i # 0
      <4> DEFINE j == i - 1
                 p == Power2[j]
      <4>1. j \in 0 .. n - 1 /\ i = j + 1 /\ HashBits - (n + 1) + i = HashBits - n + j
        BY <1>3, <3>2
      <4>2. p \in Nat \ {0} /\ Power2[i] = 2 * p
        BY <4>1, Powers
      <4>3. (h[n] \div p) % 2 = b(HashBits - n + j)
        BY <1>5, <4>1
      <4> HIDE DEF p, j
      <4>4. (2 * h[n] + last) \div (2 * p) = h[n] \div p
        BY <2>1, <4>2, ShiftedOut
      <4> QED BY <2>1, <4>1, <4>2, <4>3, <4>4
    <3> QED BY <3>1, <3>2
  <2>5. 0 .. (n + 1) - 1 = 0 .. n
    OBVIOUS
  <2> QED BY <2>3, <2>4, <2>5
<1> HIDE DEF S
<1>6. Nat \subseteq S
  BY <1>4, <1>5, Inductive
<1> QED BY <1>6 DEF S, h, b

\* The signed hash fits its column, and has the bits of the comparisons.
LEMMA SignedHash ==
    ASSUME NEW px
    PROVE  LET v == DifferenceHash(px)
           IN  /\ v \in -Power2[HashBits - 1] .. Power2[HashBits - 1] - 1
               /\ \A i \in 0 .. HashBits - 1 :
                      ((v % Power2[HashBits]) \div Power2[i]) % 2 = Bit(px, i)
<1> DEFINE h == HashLoop(px)[HashBits]
           v == DifferenceHash(px)
           half == Power2[HashBits - 1]
           all == Power2[HashBits]
<1>1. HashBits \in Nat \ {0}
  BY HashAssumption DEF HashBits
<1>2. half \in Nat \ {0} /\ all = 2 * half
  <2>1. HashBits - 1 \in Nat /\ (HashBits - 1) + 1 = HashBits
    BY <1>1
  <2> QED BY <2>1, Powers
<1>3. h \in Nat /\ h < all
  BY <1>1, HashShifts, HashDigits
<1>4. v = IF h >= half THEN h - all ELSE h
  BY DEF DifferenceHash
<1>5. ASSUME NEW i \in 0 .. HashBits - 1 PROVE (h \div Power2[i]) % 2 = Bit(px, i)
  <2>1. (h \div Power2[i]) % 2 = Bit(px, HashBits - HashBits + i)
    BY <1>1, HashDigits
  <2>2. HashBits - HashBits + i = i
    BY <1>1
  <2> QED BY <2>1, <2>2
<1> HIDE DEF h, v, half, all
<1>6. v \in -half .. half - 1
  BY <1>2, <1>3, <1>4
<1>7. v % all = h
  BY <1>2, <1>3, <1>4
<1> QED BY <1>5, <1>6, <1>7 DEF half, all, v

\* So the database counts the comparisons in which two images differ.
LEMMA DistanceCounts ==
    ASSUME NEW px, NEW qx
    PROVE  Distance(DifferenceHash(px), DifferenceHash(qx)) =
               Cardinality({i \in 0 .. HashBits - 1 : Brighter(px, i) # Brighter(qx, i)})
<1> DEFINE bit(v, i) == ((v % Power2[HashBits]) \div Power2[i]) % 2
           I == 0 .. HashBits - 1
<1>1. \A i \in I : bit(DifferenceHash(px), i) = Bit(px, i) /\ bit(DifferenceHash(qx), i) = Bit(qx, i)
  BY SignedHash
<1>2. \A i : Bit(px, i) # Bit(qx, i) <=> Brighter(px, i) # Brighter(qx, i)
  BY DEF Bit, Brighter
<1> HIDE DEF bit
<1>3. {i \in I : bit(DifferenceHash(px), i) # bit(DifferenceHash(qx), i)}
      = {i \in I : Brighter(px, i) # Brighter(qx, i)}
  BY <1>1, <1>2
<1> QED BY <1>3 DEF Distance, bit

\* What Hash has computed, and from what.
HashesInv ==
    subject.kind = "pair" /\ result # Null =>
        result = [k \in {1, 2} |-> DifferenceHash(subject.images[k])]

\* Hash is the only action on a pair of images.
LEMMA HashesInvariant == AnalysisSpec => []HashesInv
<1>1. AnalysisInit => HashesInv
  BY DEF AnalysisInit, HashesInv
<1>2. HashesInv /\ [AnalysisNext]_analysisVars => HashesInv'
  <2> SUFFICES ASSUME HashesInv, [AnalysisNext]_analysisVars, subject'.kind = "pair"
               PROVE  HashesInv'
    BY DEF HashesInv
  <2>1. CASE Hash
    BY <2>1 DEF Hash, Computes, HashesInv
  <2>2. CASE Upload \/ Crop \/ Judge
    <3>1. subject' = subject /\ subject.kind # "pair"
      BY <2>2 DEF Upload, Crop, Judge, Computes
    <3> QED BY <3>1
  <2>3. CASE UNCHANGED analysisVars
    BY <2>3 DEF analysisVars, HashesInv
  <2> QED BY <2>1, <2>2, <2>3 DEF AnalysisNext
<1> QED BY <1>1, <1>2, PTL DEF AnalysisSpec

\* For hashes of every size, 8 by 8 among them, the signed hash fits its BIGINT column,
\* and the XOR and bit_count of the scan count the comparisons in which images differ.
THEOREM DistanceAlwaysBits == AnalysisSpec => []DistanceIsBits
<1>1. HashesInv => DistanceIsBits
  <2> SUFFICES ASSUME HashesInv, Done("pair") PROVE DistanceIsBits
    BY DEF DistanceIsBits
  <2>1. /\ result[1] = DifferenceHash(subject.images[1])
        /\ result[2] = DifferenceHash(subject.images[2])
    BY DEF HashesInv, Done
  <2>2. \A k \in {1, 2} : result[k] \in -Power2[HashBits - 1] .. Power2[HashBits - 1] - 1
    BY <2>1, SignedHash
  <2>3. Distance(result[1], result[2]) =
            Cardinality({i \in 0 .. HashBits - 1 :
                Brighter(subject.images[1], i) # Brighter(subject.images[2], i)})
    BY <2>1, DistanceCounts
  <2> QED BY <2>2, <2>3 DEF DistanceIsBits
<1> QED BY <1>1, HashesInvariant, PTL


-----------------------------------------------------------------------------
(* Faces.                                                                    *)

\* Any set of naturals has a least one.
LEMMA LeastOf ==
    ASSUME NEW T, T \subseteq Nat, T # {}
    PROVE  \E m \in T : \A k \in T : m <= k
<1>1. PICK m \in T : \A k \in T : <<k, m>> \notin OpToRel(<, Nat)
  BY WFMin, NatLessThanWellFounded, Zenon
<1>2. \A k \in T : ~(k < m)
  BY <1>1, Zenon DEF OpToRel
<1> QED BY <1>2

\* What face f looks like to quadrant q, back in the frame.
View(f, q, views, nth) ==
    [x |-> f.x + views[q].off, y |-> f.y, width |-> f.width, height |-> f.height,
     score |-> views[q].score, nth |-> nth]

Box == [x : Nat, y : Nat, width : Nat \ {0}, height : Nat \ {0}]

LEMMA MapMoves ==
    ASSUME NEW q, NEW bx, NEW by, NEW bw, NEW bh, NEW bs, NEW bn
    PROVE  MapToFullImage([x |-> bx, y |-> by, width |-> bw, height |-> bh,
                           score |-> bs, nth |-> bn], q) =
               [x |-> bx + SpanX(q).start, y |-> by + SpanY(q).start, width |-> bw,
                height |-> bh, score |-> bs, nth |-> bn]
<1> DEFINE dx == SpanX(q).start
           dy == SpanY(q).start
           b == [x |-> bx, y |-> by, width |-> bw, height |-> bh, score |-> bs, nth |-> bn]
<1>1. MapToFullImage(b, q) = [b EXCEPT !.x = b.x + dx, !.y = b.y + dy]
  BY DEF MapToFullImage
<1> HIDE DEF dx, dy
<1>2. \A u, v : [b EXCEPT !.x = u, !.y = v] = [[b EXCEPT !.x = u] EXCEPT !.y = v]
  <2> HIDE DEF b
  <2> QED OBVIOUS
<1>3. \A u : [b EXCEPT !.x = u] = [x |-> u, y |-> by, width |-> bw, height |-> bh,
                                   score |-> bs, nth |-> bn]
  OBVIOUS
<1>4. \A u, v : [[x |-> u, y |-> by, width |-> bw, height |-> bh, score |-> bs, nth |-> bn]
                    EXCEPT !.y = v] =
                [x |-> u, y |-> v, width |-> bw, height |-> bh, score |-> bs, nth |-> bn]
  OBVIOUS
<1>5. b.x = bx /\ b.y = by
  OBVIOUS
<1> HIDE DEF b
<1>6. MapToFullImage(b, q) = [x |-> bx + dx, y |-> by + dy, width |-> bw, height |-> bh,
                              score |-> bs, nth |-> bn]
  BY <1>1, <1>2, <1>3, <1>4, <1>5
<1> QED BY <1>6 DEF b, dx, dy

\* Mapping to the frame undoes the crop: a quadrant moves no box, but for the pixel that
\* the detector is off.
LEMMA FoundViews ==
    ASSUME NEW faces, NEW views \in Views, \A k \in DOMAIN faces : faces[k] \in Box
    PROVE  Found(faces, views) =
               UNION {{View(faces[k], q, views, q * Len(faces) + k) :
                       k \in {k \in DOMAIN faces : Sees(q, faces[k])}} : q \in 1 .. 4}
<1>1. DOMAIN Origins = 1 .. 4
  BY DEF Origins
<1>2. ASSUME NEW q \in 1 .. 4
      PROVE  {MapToFullImage(b, q) : b \in DetectRegion(q, faces, views)} =
             {View(faces[k], q, views, q * Len(faces) + k) :
                 k \in {k \in DOMAIN faces : Sees(q, faces[k])}}
  <2>1. SpanX(q).start \in Int /\ SpanY(q).start \in Int
    BY FacesAssumption DEF SpanX, SpanY, Quadrant, Round10, Smaller
  <2>2. views[q].off \in Int
    BY <1>1 DEF Views
  <2> DEFINE seen(k) == [x      |-> faces[k].x - SpanX(q).start + views[q].off,
                         y      |-> faces[k].y - SpanY(q).start,
                         width  |-> faces[k].width, height |-> faces[k].height,
                         score  |-> views[q].score, nth    |-> q * Len(faces) + k]
             view(k) == View(faces[k], q, views, q * Len(faces) + k)
             I == {k \in DOMAIN faces : Sees(q, faces[k])}
  <2>3. ASSUME NEW k \in I PROVE MapToFullImage(seen(k), q) = view(k)
    <3>1. /\ faces[k].x \in Int /\ faces[k].y \in Int
      BY DEF Box
    <3>2. /\ faces[k].x - SpanX(q).start + views[q].off + SpanX(q).start
             = faces[k].x + views[q].off
          /\ faces[k].y - SpanY(q).start + SpanY(q).start = faces[k].y
      BY <2>1, <2>2, <3>1
    <3> QED BY <3>2, MapMoves DEF View
  <2>4. DetectRegion(q, faces, views) = {seen(k) : k \in I}
    BY DEF DetectRegion
  <2> HIDE DEF seen, view, I
  <2>5. {MapToFullImage(b, q) : b \in {seen(k) : k \in I}} = {view(k) : k \in I}
    BY <2>3
  <2> QED BY <2>4, <2>5 DEF view, I
<1> DEFINE mapped(q) == {MapToFullImage(b, q) : b \in DetectRegion(q, faces, views)}
           viewed(q) == {View(faces[k], q, views, q * Len(faces) + k) :
                             k \in {k \in DOMAIN faces : Sees(q, faces[k])}}
<1>3. Found(faces, views) = UNION {mapped(q) : q \in 1 .. 4}
  BY <1>1 DEF Found
<1>4. \A q \in 1 .. 4 : mapped(q) = viewed(q)
  BY <1>2
<1> HIDE DEF mapped, viewed
<1>5. UNION {mapped(q) : q \in 1 .. 4} = UNION {viewed(q) : q \in 1 .. 4}
  BY <1>4
<1> QED BY <1>3, <1>5 DEF viewed

\* A small face is whole in some quadrant.
LEMMA SeenSomewhere ==
    ASSUME NEW f \in Box, SmallFace(f)
    PROVE  \E q \in 1 .. 4 : Sees(q, f)
<1>1. /\ FrameEdge \in Nat \ {0}
      /\ f.x \in 0 .. FrameEdge /\ f.width + 1 \in 0 .. FrameEdge \div 5
      /\ f.x + (f.width + 1) <= FrameEdge
      /\ f.y \in 0 .. FrameEdge /\ f.height \in 0 .. FrameEdge \div 5
      /\ f.y + f.height <= FrameEdge
  BY FacesAssumption DEF SmallFace, Box
<1>2. PICK a \in BOOLEAN : Within(f.x, f.width + 1, Quadrant(a, FrameEdge))
  BY <1>1, HalvesOverlap
<1>3. PICK b \in BOOLEAN : Within(f.y, f.height, Quadrant(b, FrameEdge))
  BY <1>1, HalvesOverlap
<1>4. PICK q \in 1 .. 4 : Origins[q].x = a /\ Origins[q].y = b
  <2>1. \E q \in {1, 2, 3, 4} : Origins[q].x = a /\ Origins[q].y = b
    BY DEF Origins
  <2> QED BY <2>1
<1> QED BY <1>2, <1>3, <1>4 DEF Sees, SpanX, SpanY

\* Two views of a small face have far more than 30% in common: w - 1 columns of w + 1.
LEMMA ViewsOverlap ==
    ASSUME NEW f \in Box, f.width >= 2, NEW views \in Views,
           NEW p \in 1 .. 4, NEW q \in 1 .. 4, NEW m, NEW n
    PROVE  Overlap(View(f, p, views, m), View(f, q, views, n))
<1> DEFINE a == View(f, p, views, m)
           b == View(f, q, views, n)
           w == f.width
           h == f.height
           dx == Common(a, b, "x", "width")
           dy == Common(a, b, "y", "height")
<1>1. f.x \in Nat /\ f.y \in Nat /\ w \in Nat /\ h \in Nat /\ w >= 2 /\ h >= 1
  BY DEF Box
<1>2. views[p].off \in {0, 1} /\ views[q].off \in {0, 1}
  BY DEF Views, Origins
<1>3. a.width = w /\ b.width = w /\ a.height = h /\ b.height = h
  BY DEF View
<1>4. dx \in Nat /\ dx >= w - 1 /\ dx <= w
  BY <1>1, <1>2 DEF View, Common, Larger, Smaller
<1>5. dy = h
  BY <1>1 DEF View, Common, Larger, Smaller
<1> HIDE DEF a, b, w, h, dx, dy
<1>6. 10 * (dx * h) > 3 * (w * h + w * h - dx * h)
  <2>1. 13 * dx - 6 * w >= 1
    BY <1>1, <1>4
  <2>2. (13 * dx - 6 * w) * h >= 1
    BY <1>1, <1>4, <2>1
  <2>3. (13 * dx - 6 * w) * h = 13 * (dx * h) - 6 * (w * h)
    BY <1>1, <1>4
  <2>4. dx * h \in Int /\ w * h \in Int
    BY <1>1, <1>4
  <2> QED BY <2>2, <2>3, <2>4
<1>7. Overlap(a, b)
  BY <1>3, <1>5, <1>6 DEF Overlap, dx, dy
<1> QED BY <1>7 DEF a, b

\* Spans one after the other have nothing in common.
LEMMA NoCommon ==
    ASSUME NEW a \in Nat, NEW b \in Nat, NEW l \in Nat, NEW m \in Nat, a + l <= b \/ b + m <= a
    PROVE  Larger(0, Smaller(a + l, b + m) - Larger(a, b)) = 0
BY DEF Larger, Smaller

\* Views of faces that are apart have nothing in common.
LEMMA ApartViews ==
    ASSUME NEW f \in Box, NEW g \in Box, Apart(f, g) \/ Apart(g, f), NEW views \in Views,
           NEW p \in 1 .. 4, NEW q \in 1 .. 4, NEW m, NEW n
    PROVE  ~Overlap(View(f, p, views, m), View(g, q, views, n))
<1> DEFINE a == View(f, p, views, m)
           b == View(g, q, views, n)
           dx == Common(a, b, "x", "width")
           dy == Common(a, b, "y", "height")
<1>1. /\ f.x \in Nat /\ f.y \in Nat /\ f.width \in Nat /\ f.height \in Nat
      /\ g.x \in Nat /\ g.y \in Nat /\ g.width \in Nat /\ g.height \in Nat
  BY DEF Box
<1>2. views[p].off \in {0, 1} /\ views[q].off \in {0, 1}
  BY DEF Views, Origins
<1>3. dx \in Nat /\ dy \in Nat /\ (dx = 0 \/ dy = 0)
  <2>1. dx = Larger(0, Smaller(f.x + views[p].off + f.width, g.x + views[q].off + g.width)
                       - Larger(f.x + views[p].off, g.x + views[q].off))
    BY DEF View, Common
  <2>2. dy = Larger(0, Smaller(f.y + f.height, g.y + g.height) - Larger(f.y, g.y))
    BY DEF View, Common
  <2> HIDE DEF dx, dy
  <2>3. dx \in Nat /\ dy \in Nat
    BY <1>1, <1>2, <2>1, <2>2 DEF Larger, Smaller
  <2>4. CASE f.x + f.width < g.x \/ g.x + g.width < f.x
    <3> DEFINE u == f.x + views[p].off
               v == g.x + views[q].off
    <3>1. u \in Nat /\ v \in Nat
      BY <1>1, <1>2
    <3>2. u + f.width <= v \/ v + g.width <= u
      BY <1>1, <1>2, <2>4
    <3>3. dx = Larger(0, Smaller(u + f.width, v + g.width) - Larger(u, v))
      BY <2>1
    <3> HIDE DEF u, v
    <3>4. f.width \in Nat /\ g.width \in Nat
      BY <1>1
    <3>5. Larger(0, Smaller(u + f.width, v + g.width) - Larger(u, v)) = 0
      BY <3>1, <3>2, <3>4, NoCommon
    <3>6. dx = 0
      BY <3>3, <3>5
    <3> QED BY <2>3, <3>6
  <2>5. CASE f.y + f.height <= g.y \/ g.y + g.height <= f.y
    BY <1>1, <2>2, <2>3, <2>5, NoCommon
  <2> QED BY <2>3, <2>4, <2>5 DEF Apart
<1>4. dx * dy = 0
  BY <1>3
<1>5. a.width * a.height \in Nat /\ b.width * b.height \in Nat
  BY <1>1 DEF View
<1> HIDE DEF a, b, dx, dy
<1>6. ~Overlap(a, b)
  BY <1>4, <1>5 DEF Overlap, dx, dy
<1> QED BY <1>6 DEF a, b


\* Of the views of a face one comes before all others.
LEMMA FirstView ==
    ASSUME NEW f \in Box, SmallFace(f), NEW views \in Views, NEW N \in {1, 2}, NEW k \in 1 .. N
    PROVE  \E p \in 1 .. 4 :
               /\ Sees(p, f)
               /\ \A q \in 1 .. 4 :
                      /\ q # p /\ Sees(q, f) => Before(View(f, p, views, p * N + k),
                                                       View(f, q, views, q * N + k))
                      /\ Sees(q, f) => ~Before(View(f, q, views, q * N + k),
                                               View(f, p, views, p * N + k))
<1> DEFINE Q == {q \in 1 .. 4 : Sees(q, f)}
           s(q) == views[q].score
           rank(q) == 4 * (2 - s(q)) + q
           T == {rank(q) : q \in Q}
           V(q) == View(f, q, views, q * N + k)
<1>1. \A q \in 1 .. 4 : s(q) \in {1, 2}
  BY DEF Views, Origins
<1>2. \E q \in 1 .. 4 : Sees(q, f)
  BY SeenSomewhere
<1> HIDE DEF s
<1>3. T \subseteq Nat /\ T # {}
  BY <1>1, <1>2
<1>4. PICK m \in T : \A n \in T : m <= n
  <2> HIDE DEF T
  <2> QED BY <1>3, LeastOf
<1>5. PICK p \in Q : \A q \in Q : rank(p) <= rank(q)
  BY <1>4
<1>6. \A q : V(q).score = s(q) /\ V(q).nth = q * N + k
  BY DEF View, s
<1> HIDE DEF V
<1>7. ASSUME NEW q \in Q
      PROVE  (q # p => Before(V(p), V(q))) /\ ~Before(V(q), V(p))
  <2>1. s(p) \in {1, 2} /\ s(q) \in {1, 2} /\ rank(p) <= rank(q) /\ p \in 1 .. 4 /\ q \in 1 .. 4
    BY <1>1, <1>5
  <2>2. s(p) > s(q) \/ (s(p) = s(q) /\ p <= q)
    BY <2>1
  <2>3. p <= q => p * N + k <= q * N + k /\ (q # p => p * N + k < q * N + k)
    BY <2>1
  <2>4. V(p).score = s(p) /\ V(q).score = s(q) /\ V(p).nth = p * N + k /\ V(q).nth = q * N + k
    BY <1>6
  <2>5. p * N + k \in Int /\ q * N + k \in Int
    BY <2>1
  <2>6. q # p => Before(V(p), V(q))
    BY <2>1, <2>2, <2>3, <2>4, <2>5 DEF Before
  <2>7. ~Before(V(q), V(p))
    BY <2>1, <2>2, <2>3, <2>4, <2>5 DEF Before
  <2> QED BY <2>6, <2>7
<1> QED BY <1>5, <1>7 DEF V

\* When boxes overlap just if they show the same thing, the first box of each thing is kept.
LEMMA KeptFirsts ==
    ASSUME NEW B, NEW I, NEW first \in [I -> B], NEW shows \in [B -> I],
           \A k \in I : shows[first[k]] = k,
           \A b, c \in B : Overlap(c, b) <=> shows[b] = shows[c],
           \A b \in B : b # first[shows[b]] => Before(first[shows[b]], b),
           \A b \in B : ~Before(b, first[shows[b]])
    PROVE  SuppressOverlapping(B) = {first[k] : k \in I}
<1> DEFINE Firsts == {first[k] : k \in I}
           Greedy(K) == \A b \in B : b \in K <=> ~ \E c \in K : Before(c, b) /\ Overlap(c, b)
<1>1. Firsts \subseteq B /\ \A b \in Firsts : b = first[shows[b]]
  OBVIOUS
<1>2. Greedy(Firsts)
  <2>1. ASSUME NEW b \in B, b \in Firsts, NEW c \in Firsts, Before(c, b), Overlap(c, b)
        PROVE  FALSE
    <3>1. shows[b] = shows[c] /\ b = first[shows[b]]
      BY <1>1, <2>1
    <3> QED BY <1>1, <2>1, <3>1
  <2>2. ASSUME NEW b \in B, b \notin Firsts
        PROVE  \E c \in Firsts : Before(c, b) /\ Overlap(c, b)
    <3> DEFINE c == first[shows[b]]
    <3>1. c \in Firsts /\ c \in B /\ shows[c] = shows[b]
      OBVIOUS
    <3>2. Before(c, b)
      BY <2>2
    <3> QED BY <3>1, <3>2
  <2> QED BY <2>1, <2>2
<1>3. ASSUME NEW K \in SUBSET B, Greedy(K) PROVE K = Firsts
  <2>1. ASSUME NEW k \in I PROVE first[k] \in K
    <3>1. ASSUME NEW c \in K, Before(c, first[k]), Overlap(c, first[k]) PROVE FALSE
      <4>1. shows[c] = k /\ c \in B
        BY <3>1
      <4> QED BY <3>1, <4>1
    <3> QED BY <1>3, <3>1
  <2>2. ASSUME NEW b \in K PROVE b \in Firsts
    <3> DEFINE c == first[shows[b]]
    <3>1. c \in K /\ c \in B /\ b \in B /\ shows[c] = shows[b] /\ shows[b] \in I
      BY <2>1
    <3>2. Overlap(c, b)
      BY <3>1
    <3>3. b = c
      BY <1>3, <3>1, <3>2
    <3> QED BY <3>1, <3>3
  <2> QED BY <2>1, <2>2
<1> HIDE DEF Firsts
<1>4. SuppressOverlapping(B) = CHOOSE K \in SUBSET B : Greedy(K)
  BY DEF SuppressOverlapping
<1> HIDE DEF Greedy
<1> QED BY <1>1, <1>2, <1>3, <1>4 DEF Firsts


\* The quadrants find every small face, and keep one view of each.
LEMMA EachOnce ==
    ASSUME NEW N \in {1, 2}, NEW faces \in [1 .. N -> Box], Len(faces) = N,
           \A k \in 1 .. N : SmallFace(faces[k]),
           \A k, l \in 1 .. N : k # l => Apart(faces[k], faces[l]) \/ Apart(faces[l], faces[k]),
           NEW views \in Views
    PROVE  \E best \in [1 .. N -> 1 .. 4] :
               Detect({}, faces, views) =
                   {View(faces[k], best[k], views, best[k] * N + k) : k \in 1 .. N}
<1> DEFINE I == 1 .. N
           V(q, k) == View(faces[k], q, views, q * N + k)
           B == Found(faces, views)
           Best(k, p) == /\ Sees(p, faces[k])
                         /\ \A q \in 1 .. 4 :
                                /\ q # p /\ Sees(q, faces[k]) => Before(V(p, k), V(q, k))
                                /\ Sees(q, faces[k]) => ~Before(V(q, k), V(p, k))
           best == [k \in I |-> CHOOSE p \in 1 .. 4 : Best(k, p)]
           first == [k \in I |-> V(best[k], k)]
           shows == [b \in B |-> ((b.nth - 1) % N) + 1]
<1>1. \A k \in I : best[k] \in 1 .. 4 /\ Best(k, best[k])
  <2>1. ASSUME NEW k \in I PROVE \E p \in 1 .. 4 : Best(k, p)
    <3>1. faces[k] \in Box /\ SmallFace(faces[k])
      OBVIOUS
    <3> QED BY <3>1, FirstView
  <2> HIDE DEF Best
  <2> QED BY <2>1
<1>2. \A b : b \in B <=> \E q \in 1 .. 4, k \in I : Sees(q, faces[k]) /\ b = V(q, k)
  <2>1. DOMAIN faces = I
    OBVIOUS
  <2>2. B = UNION {{V(q, k) : k \in {k \in I : Sees(q, faces[k])}} : q \in 1 .. 4}
    BY <2>1, FoundViews
  <2> HIDE DEF B, V
  <2> QED BY <2>2
<1>3. \A q \in 1 .. 4, k \in I : ((V(q, k).nth - 1) % N) + 1 = k
  <2>1. \A q \in 1 .. 4, k \in I : V(q, k).nth = q * N + k
    BY DEF View
  <2> HIDE DEF V
  <2>2. CASE N = 1
    BY <2>1, <2>2
  <2>3. CASE N = 2
    <3>1. \A q \in 1 .. 4 : ((q * 2 + 1 - 1) % 2) + 1 = 1 /\ ((q * 2 + 2 - 1) % 2) + 1 = 2
      OBVIOUS
    <3> QED BY <2>1, <2>3, <3>1
  <2> QED BY <2>2, <2>3
<1>4. ASSUME NEW b \in B
      PROVE  \E q \in 1 .. 4 : shows[b] \in I /\ Sees(q, faces[shows[b]]) /\ b = V(q, shows[b])
  <2>1. PICK q \in 1 .. 4, k \in I : Sees(q, faces[k]) /\ b = V(q, k)
    BY <1>2
  <2>2. shows[b] = k
    BY <1>3, <2>1
  <2> QED BY <2>1, <2>2
<1>5. first \in [I -> B] /\ shows \in [B -> I]
  <2>1. \A k \in I : V(best[k], k) \in B
    BY <1>1, <1>2
  <2>2. \A b \in B : shows[b] \in I
    BY <1>4
  <2> HIDE DEF B, V, best
  <2> QED BY <2>1, <2>2
<1>6. \A k \in I : shows[first[k]] = k
  <2>1. \A k \in I : V(best[k], k) \in B
    BY <1>1, <1>2
  <2> HIDE DEF B, V, best
  <2> QED BY <1>1, <1>3, <2>1
<1>7. ASSUME NEW b \in B, NEW c \in B PROVE Overlap(c, b) <=> shows[b] = shows[c]
  <2>1. PICK p \in 1 .. 4 : shows[c] \in I /\ c = V(p, shows[c])
    BY <1>4
  <2>2. PICK q \in 1 .. 4 : shows[b] \in I /\ b = V(q, shows[b])
    BY <1>4
  <2> DEFINE f == faces[shows[c]]
             g == faces[shows[b]]
  <2>3. f \in Box /\ g \in Box /\ SmallFace(f) /\ SmallFace(g)
    BY <2>1, <2>2
  <2>4. CASE shows[b] = shows[c]
    <3>1. f.width >= 2
      BY <2>3 DEF SmallFace
    <3> QED BY <2>1, <2>2, <2>3, <2>4, <3>1, ViewsOverlap
  <2>5. CASE shows[b] # shows[c]
    <3>1. Apart(f, g) \/ Apart(g, f)
      BY <2>1, <2>2, <2>5
    <3> QED BY <2>1, <2>2, <2>3, <2>5, <3>1, ApartViews
  <2> QED BY <2>4, <2>5
<1>8. ASSUME NEW b \in B
      PROVE  /\ b # first[shows[b]] => Before(first[shows[b]], b)
             /\ ~Before(b, first[shows[b]])
  <2>1. PICK q \in 1 .. 4 : shows[b] \in I /\ Sees(q, faces[shows[b]]) /\ b = V(q, shows[b])
    BY <1>4
  <2>2. first[shows[b]] = V(best[shows[b]], shows[b])
    BY <2>1
  <2>3. Best(shows[b], best[shows[b]])
    BY <1>1, <2>1
  <2> HIDE DEF B, V, best, shows, first
  <2> QED BY <2>1, <2>2, <2>3
<1> HIDE DEF B, V, best, shows, first, I
<1>9. SuppressOverlapping(B) = {first[k] : k \in I}
  BY <1>5, <1>6, <1>7, <1>8, KeptFirsts
<1>10. {first[k] : k \in I} = {V(best[k], k) : k \in I}
  BY DEF first
<1>11. Detect({}, faces, views) = {V(best[k], k) : k \in I}
  BY <1>9, <1>10 DEF Detect, B
<1>12. best \in [I -> 1 .. 4]
  BY <1>1 DEF best
<1> QED BY <1>11, <1>12 DEF V, I


\* Each of f is as high as its counterpart in g, and neither has one twice.
AlikeInHeight(N, f, g) ==
    /\ \A k, l \in 1 .. N : k # l => f[k] # f[l] /\ g[k] # g[l]
    /\ \A k \in 1 .. N : f[k].height = g[k].height

\* evaluateContent depends on how many faces there are, up to two, and on their heights.
LEMMA JudgedByHeights ==
    ASSUME NEW N \in {1, 2}, NEW f, NEW g, AlikeInHeight(N, f, g)
    PROVE  EvaluateContent({f[k] : k \in 1 .. N}) = EvaluateContent({g[k] : k \in 1 .. N})
<1> DEFINE F == {f[k] : k \in 1 .. N}
           G == {g[k] : k \in 1 .. N}
<1>0. /\ \A k, l \in 1 .. N : k # l => f[k] # f[l] /\ g[k] # g[l]
      /\ \A k \in 1 .. N : f[k].height = g[k].height
  BY DEF AlikeInHeight
<1>1. {b.height : b \in F} = {b.height : b \in G}
  BY <1>0
<1>2. F # {} /\ G # {}
  OBVIOUS
<1>3. Cardinality(F) > 1 <=> Cardinality(G) > 1
  <2>1. CASE N = 1
    <3>1. F = {f[1]} /\ G = {g[1]}
      BY <2>1
    <3> HIDE DEF F, G
    <3> QED BY <3>1, FS_Singleton
  <2>2. CASE N = 2
    <3>1. F = {f[1]} \cup {f[2]} /\ f[2] \notin {f[1]}
      BY <1>0, <2>2
    <3>2. G = {g[1]} \cup {g[2]} /\ g[2] \notin {g[1]}
      BY <1>0, <2>2
    <3>3. ASSUME NEW a, NEW b, b \notin {a} PROVE Cardinality({a} \cup {b}) = 2
      <4>1. IsFiniteSet({a}) /\ Cardinality({a}) = 1
        BY FS_Singleton
      <4>2. Cardinality({a} \cup {b}) = Cardinality({a}) + 1
        BY <3>3, <4>1, FS_AddElement
      <4> QED BY <4>1, <4>2
    <3> HIDE DEF F, G
    <3> QED BY <3>1, <3>2, <3>3
  <2> QED BY <2>1, <2>2
<1> HIDE DEF F, G
<1>4. EvaluateContent(F) = EvaluateContent(G)
  BY <1>1, <1>2, <1>3 DEF EvaluateContent
<1> QED BY <1>4 DEF F, G

\* Small faces apart are judged alike, from any boxes the quadrants give.
LEMMA QuadrantsJudgeAlike ==
    ASSUME NEW N \in {1, 2}, NEW faces \in [1 .. N -> Box], Len(faces) = N,
           \A k \in 1 .. N : SmallFace(faces[k]),
           \A k, l \in 1 .. N : k # l => Apart(faces[k], faces[l]) \/ Apart(faces[l], faces[k]),
           NEW views \in Views
    PROVE  EvaluateContent(Detect(ToSet(faces), faces, views)) =
               EvaluateContent(Detect({}, faces, views))
<1>1. PICK best \in [1 .. N -> 1 .. 4] :
          Detect({}, faces, views) =
              {View(faces[k], best[k], views, best[k] * N + k) : k \in 1 .. N}
  BY EachOnce
<1> DEFINE seen == [k \in 1 .. N |-> View(faces[k], best[k], views, best[k] * N + k)]
<1>2. Detect({}, faces, views) = {seen[k] : k \in 1 .. N}
  BY <1>1
<1>3. \A k, l \in 1 .. N : k # l => seen[k] # seen[l]
  <2>1. \A k \in 1 .. N : seen[k].nth = best[k] * N + k
    BY DEF View
  <2> HIDE DEF seen
  <2>2. ASSUME NEW k \in 1 .. N, NEW l \in 1 .. N, k # l PROVE seen[k] # seen[l]
    <3>1. N = 2 /\ best[k] \in 1 .. 4 /\ best[l] \in 1 .. 4
      BY <2>2
    <3>2. best[k] * 2 + k # best[l] * 2 + l
      BY <2>2, <3>1
    <3> QED BY <2>1, <3>1, <3>2
  <2> QED BY <2>2
<1>4. \A k, l \in 1 .. N : k # l => faces[k] # faces[l]
  <2>1. ASSUME NEW f \in Box PROVE ~Apart(f, f)
    BY DEF Apart, Box
  <2> QED BY <2>1
<1>5. \A k \in 1 .. N : seen[k].height = faces[k].height
  BY DEF View
<1>6. ToSet(faces) = {faces[k] : k \in 1 .. N} /\ ToSet(faces) # {}
  BY DEF ToSet
<1>7. Detect(ToSet(faces), faces, views) = {faces[k] : k \in 1 .. N}
  BY <1>6 DEF Detect
<1> HIDE DEF seen
<1>8. AlikeInHeight(N, seen, faces)
  BY <1>3, <1>4, <1>5 DEF AlikeInHeight
<1>9. EvaluateContent({seen[k] : k \in 1 .. N}) = EvaluateContent({faces[k] : k \in 1 .. N})
  BY <1>8, JudgedByHeights
<1> QED BY <1>2, <1>7, <1>9

\* What Judge has computed, and from what.
JudgesInv ==
    subject.kind = "photo" =>
        /\ subject \in Photo
        /\ result # Null =>
               result = [full      |-> EvaluateContent(Detect(ToSet(subject.faces), subject.faces,
                                                              subject.views)),
                         quadrants |-> EvaluateContent(Detect({}, subject.faces, subject.views))]

LEMMA JudgesInvariant == AnalysisSpec => []JudgesInv
<1>1. AnalysisInit => JudgesInv
  <2>1. /\ subject \in File => subject.kind = "file"
        /\ subject \in Axis => subject.kind = "axis"
        /\ subject \in Pair => subject.kind = "pair"
    BY DEF File, Axis, Pair
  <2> QED BY <2>1 DEF AnalysisInit, JudgesInv
<1>2. JudgesInv /\ [AnalysisNext]_analysisVars => JudgesInv'
  <2> SUFFICES ASSUME JudgesInv, [AnalysisNext]_analysisVars, subject'.kind = "photo"
               PROVE  JudgesInv'
    BY DEF JudgesInv
  <2>1. CASE Judge
    BY <2>1 DEF Judge, Computes, JudgesInv
  <2>2. CASE Upload \/ Crop \/ Hash
    <3>1. subject' = subject /\ subject.kind # "photo"
      BY <2>2 DEF Upload, Crop, Hash, Computes
    <3> QED BY <3>1
  <2>3. CASE UNCHANGED analysisVars
    BY <2>3 DEF analysisVars, JudgesInv
  <2> QED BY <2>1, <2>2, <2>3 DEF AnalysisNext
<1> QED BY <1>1, <1>2, PTL DEF AnalysisSpec

\* Wherever one or two small faces are in a frame of any size, whatever scores the
\* quadrants give them, the fallback of detect decides as the full frame would.
THEOREM JudgedAlways == AnalysisSpec => []JudgedAlike
<1>1. JudgesInv => JudgedAlike
  <2> SUFFICES ASSUME JudgesInv, Done("photo"), \A f \in ToSet(subject.faces) : SmallFace(f)
               PROVE  result.full = result.quadrants
    BY DEF JudgedAlike
  <2> DEFINE faces == subject.faces
             views == subject.views
  <2>1. /\ subject \in Photo
        /\ result = [full      |-> EvaluateContent(Detect(ToSet(faces), faces, views)),
                     quadrants |-> EvaluateContent(Detect({}, faces, views))]
    BY DEF JudgesInv, Done
  <2>2. /\ views \in Views
        /\ faces \in {<<f>> : f \in Faces} \cup {p \in Faces \X Faces : Apart(p[1], p[2])}
    BY <2>1 DEF Photo
  <2>3. PICK N \in {1, 2} : /\ faces \in [1 .. N -> Box] /\ Len(faces) = N
                            /\ N = 2 => Apart(faces[1], faces[2])
    BY <2>2, FacesAssumption DEF Box
  <2>4. \A k \in 1 .. N : SmallFace(faces[k])
    <3>1. \A k \in 1 .. N : faces[k] \in ToSet(faces)
      BY <2>3 DEF ToSet
    <3> QED BY <3>1
  <2>5. \A k, l \in 1 .. N : k # l => Apart(faces[k], faces[l]) \/ Apart(faces[l], faces[k])
    BY <2>3
  <2> HIDE DEF faces, views
  <2>6. EvaluateContent(Detect(ToSet(faces), faces, views)) =
        EvaluateContent(Detect({}, faces, views))
    BY <2>2, <2>3, <2>4, <2>5, QuadrantsJudgeAlike
  <2> QED BY <2>1, <2>6
<1> QED BY <1>1, JudgesInvariant, PTL

=============================================================================
