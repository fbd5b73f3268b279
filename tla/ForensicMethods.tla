--------------------------- MODULE ForensicMethods ---------------------------
(***************************************************************************)
(* The decisions of services/image's forensic methods: from what a method  *)
(* measures in the pixels to the verdict its column of image_forensics     *)
(* carries.  Pixels, spectra, median filters and pictures are left out: a  *)
(* measure is the grid of block statistics, the peaks, or the displacement *)
(* groups a method has found, as small numbers; ratios are per mille.      *)
(***************************************************************************)
EXTENDS Integers, FiniteSets
LOCAL INSTANCE Functions
LOCAL INSTANCE FiniteSetsExt

CONSTANT Forensic    \* the forensic settings of config.py, a record

\* A verdict is "na" when the method does not apply to the file, "unmeasured" when
\* the image is too small for it, "clean" or "plain" when nothing stands out.

-----------------------------------------------------------------------------
(* Regions: image/regions.py *)

Neighbours(c) == {<<c[1] - 1, c[2]>>, <<c[1] + 1, c[2]>>, <<c[1], c[2] - 1>>, <<c[1], c[2] + 1>>}

\* What the flood fill from a flagged block reaches.
Reached(mask, c) ==
    LET fill[n \in 0 .. Cardinality(mask)] ==
            IF n = 0 THEN {c}
            ELSE LET wet == fill[n - 1] IN wet \cup {d \in mask : Neighbours(d) \cap wet # {}}
    IN  fill[Cardinality(mask)]

\* Smaller components are noise.  The verdicts only ask whether one is left, so
\* the limit on their number does not show.
Regions(mask, minBlocks) ==
    {r \in {Reached(mask, c) : c \in mask} : Cardinality(r) >= minBlocks}

ScatteredCounts(mask, blocks, minBlocks, low, high) ==                      \* mutant
    LET share == 1000 * Cardinality(mask)
    IN  low * blocks <= share /\ mask # {}

\* Few enough flagged blocks to be local, enough to matter, and some adjacent.
Localised(mask, blocks, minBlocks, low, high) ==
    LET share == 1000 * Cardinality(mask)
    IN  /\ low * blocks <= share
        /\ share <= high * blocks
        /\ Regions(mask, minBlocks) # {}

\* Blocks above the mean by so many standard deviations (in tenths): with n blocks
\* of sum s and sum of squares q, n*(v - mean) = n*v - s and n^2*variance = n*q - s^2.
Outliers(levels, tenths, least) ==
    LET n == Cardinality(DOMAIN levels)
        s == FoldFunction(LAMBDA v, acc : v + acc, 0, levels)
        q == FoldFunction(LAMBDA v, acc : v * v + acc, 0, levels)
    IN  {c \in DOMAIN levels :
            /\ levels[c] > least
            /\ n * levels[c] > s
            /\ 100 * (n * levels[c] - s) * (n * levels[c] - s)
                  > tenths * tenths * (n * q - s * s)}

-----------------------------------------------------------------------------
(* Error level analysis, block grid, resampling *)

\* x.levels: the mean re-compression error of each block.
ElaVerdict(x, format) ==
    IF format # "JPEG" THEN "na"
    ELSE IF Localised(Outliers(x.levels, Forensic.sigma, 4), Cardinality(DOMAIN x.levels), 2,
                      Forensic.elaMin, Forensic.elaMax)
    THEN "anomaly" ELSE "clean"

\* x.x and x.y: the strength of each phase of the 8-pixel grid per direction.  A
\* second grid must show in both, and beside a strong first grid be half as strong.
MeasureGrid(x) ==
    LET aligned == Min({x.x[0], x.y[0]})
        offset == Min({Max({x.x[k] : k \in 1 .. 7}), Max({x.y[k] : k \in 1 .. 7})})
    IN  [aligned |-> x.side >= 64 /\ aligned >= Forensic.gridStrength,
         offset |-> /\ x.side >= 64
                    /\ offset >= Forensic.gridStrength
                    /\ 2 * offset >= Max({aligned, 0})]

CompressionVerdict(x, format) ==
    LET grid == MeasureGrid(x)
    IN  IF format = "JPEG" THEN IF grid.offset THEN "anomaly" ELSE "encoding"
        ELSE IF grid.aligned \/ grid.offset THEN "prior" ELSE "plain"

\* x.ratios: the spectral peaks outside the masked frequencies.
ResamplingVerdict(x) ==
    IF x.side < 128 THEN "unmeasured"
    ELSE IF \E r \in x.ratios : r >= Forensic.peakRatio THEN "detected" ELSE "clean"

-----------------------------------------------------------------------------
(* Noise and copy-move *)

Distance(a, b) == IF a >= b THEN a - b ELSE b - a

\* x.sigma: the noise of each smooth block (the least textured 70 per cent, so there
\* are always some), in tenths of a grey level like their median and quartile spread.
NoiseVerdict(x) ==
    LET smooth == DOMAIN x.sigma
        threshold == Max({Forensic.noiseK * x.spread, 10, x.baseline \div 2})
        outliers == {c \in smooth : Distance(x.sigma[c], x.baseline) > threshold}
    IN  IF x.side < 64 \/ x.side < 2 * Forensic.noiseBlock THEN "unmeasured"
        ELSE IF /\ Cardinality(smooth) >= 4
                /\ Localised(outliers, Cardinality(smooth), 2, Forensic.noiseMin,
                             Forensic.noiseMax)
        THEN "anomaly" ELSE "clean"

\* x.groups: matching pairs by displacement.  Only the largest groups are looked
\* at, a group that is too thinly spread is passed over, and the first that is
\* too small ends the search.
CopyMoveVerdict(x) ==
    LET larger(g) == {h \in DOMAIN x.groups : x.groups[h].pairs > x.groups[g].pairs}
    IN  IF x.side < 96 THEN "unmeasured"
        ELSE IF \E g \in DOMAIN x.groups :
                   /\ Cardinality(larger(g)) < 12
                   /\ x.groups[g].pairs >= Forensic.minMatches
                   /\ x.groups[g].density >= 150
        THEN "detected" ELSE "clean"

-----------------------------------------------------------------------------
(* Double compression *)

\* How deep a curve of error by quality dips at each sample, below what is left and
\* right of it.  Only a quality clearly lower than the last save can leave a ghost.
Depths(curve, last) ==
    LET n == Cardinality(DOMAIN curve)
        below(i) == Min({curve[Max({1, i - 2})], curve[Min({n, i + 2})]}) - curve[i]
    IN  [i \in DOMAIN curve |->
            IF i \in {1, n} \/ i >= last - 3 THEN 0 ELSE Max({0, below(i)})]

Deepest(depths) == Max({depths[i] : i \in DOMAIN depths})

\* The lowest quality among the deep dips; the others are its harmonics.
PickDip(depths) ==
    LET deep == {i \in DOMAIN depths :
                    /\ depths[i] >= Forensic.ghostDepth
                    /\ 10 * depths[i] >= 6 * Deepest(depths)}
    IN  IF deep = {} THEN 0 ELSE Min(deep)

\* x.curves: each block's curve; x.last: the sample of the last save when the file
\* has standard tables, otherwise 0 and the lowest point of the mean curve.
DoubleCompressionVerdict(x, format) ==
    LET blocks == DOMAIN x.curves
        samples == DOMAIN x.curves[CHOOSE b \in blocks : TRUE]
        mean == [i \in samples |->
                    FoldFunction(LAMBDA c, acc : c[i] + acc, 0, x.curves)
                        \div Cardinality(blocks)]
        last == IF x.last # 0 THEN x.last
                ELSE Min({i \in samples : \A j \in samples : mean[i] <= mean[j]})
        ghosts == {b \in blocks : Deepest(Depths(x.curves[b], last)) >= Forensic.ghostDepth}
        everywhere == PickDip(Depths(mean, last)) # 0
        localised == Localised(ghosts, Cardinality(blocks), 3, Forensic.ghostMin,
                               Forensic.ghostMax)
        periodic == x.periodicity >= Forensic.periodicity
    IN  IF format # "JPEG" THEN "na"
        ELSE IF localised /\ ~everywhere THEN "anomaly"
        ELSE IF \/ everywhere
                \/ 1000 * Cardinality(ghosts) > Forensic.ghostMax * Cardinality(blocks)
                \/ periodic
        THEN "detected" ELSE "clean"

-----------------------------------------------------------------------------
(* Thumbnails *)

\* A thumbnail t as the file or the manifest carries it, at most 4096 KiB.
Usable(t) == t.bytes <= 4096 /\ t.readable /\ t.side >= 16

\* t.plain: correlation with the image; t.turned: the best after a flip or a turn;
\* t.rest: outside the outlier blocks, when they are some and not all.
ThumbnailVerdict(t) ==
    LET blocks == Cardinality(DOMAIN t.levels)
        mask == Outliers(t.levels, Forensic.sigma, 35)
        turned == t.turned > t.plain /\ t.turned >= 850 /\ t.turned - t.plain >= 150
        rest == IF mask # {} /\ mask # DOMAIN t.levels THEN t.rest ELSE t.plain
        mismatch == rest < Forensic.correlation /\ ~turned
        region == ~mismatch /\ Localised(mask, blocks, 2, Forensic.thumbMin, Forensic.thumbMax)
        geometry == turned \/ t.aspect > Forensic.aspect
    IN  IF ~Usable(t) THEN "na"
        ELSE IF mismatch THEN IF geometry THEN "global+geometry" ELSE "global"
        ELSE IF region THEN IF geometry THEN "region+geometry" ELSE "region"
        ELSE IF geometry THEN "geometry" ELSE "clean"

\* The EXIF thumbnail: of the formats that carry an EXIF block, when it is there.
ExifThumbnailVerdict(x, format) ==
    IF format \notin {"JPEG", "TIFF"} \/ ~x.present THEN "na" ELSE ThumbnailVerdict(x)
=============================================================================
