-------------------------- MODULE LightShowProofs --------------------------
(* What the light thread makes of any songs of the model (they have at most 16
   samples), at any sample rates, with any number of bands and any levels.  How
   a song is cut is proved for songs of any length (CuttingCovers).

   WholeFrames needs nothing of the analysis: FrameInv follows the buffer from the
   clearing of a frame to its showing.  The other invariants follow from
   SongInv, which says which song the pieces were cut from, that the piece being
   shown is one of them and that its spectrum and its bins are those of this
   piece.  What the operators of the analysis yield is stated before, as lemmas;
   that the transform is right is FFTIsDFT of SimpleFftProofs.               *)
EXTENDS LightShow, SimpleFftProofs

---------------------------------------------------------------------------
\* Frames on the matrix.

\* The pixel p belongs to this line, at this place of it.
LineOf(p) == p \div PixelsPerLine + 1

\* While a frame is written, the lines before the next are finished and the
\* others dark.
Buffer ==
    pc = "lines" =>
        pixels = [p \in Pixel |-> IF LineOf(p) < line THEN Bars(bandPercentages)[p] ELSE 0]

\* The parts of the type invariant this needs.
Types ==
    /\ pc \in {"song", "frame", "lines", "off", "terminated"}
    /\ bandPercentages \in [Lines -> 0 .. 100]
    /\ line \in Lines \cup {Len(BandEdges)}

FrameInv == Types /\ Buffer /\ WholeFrames

\* The lines are the numbers below the number of edges.
LEMMA LineFacts == Len(BandEdges) \in Nat /\ Len(BandEdges) > 1 /\ Lines = 1 .. Len(BandEdges) - 1
BY ShowAssumption DEF Lines

\* A pixel belongs to exactly one line.
LEMMA PixelFacts ==
    ASSUME NEW p \in Pixel
    PROVE  /\ LineOf(p) \in Lines /\ p % PixelsPerLine \in 0 .. 7
           /\ \A l \in Lines, i \in 0 .. 7 :
                 p = PixelOf(l, i) <=> l = LineOf(p) /\ i = p % PixelsPerLine
BY LineFacts DEF Pixel, LineOf, PixelOf, PixelsPerLine

\* A percentage asks for at most eight pixels: those whose middle is below it.
LEMMA AmountFacts ==
    ASSUME NEW q \in 0 .. 100
    PROVE  /\ AmountPixels(q) \in 0 .. 8
           /\ \A i \in 0 .. 7 : i < AmountPixels(q) <=> 25 * (2 * i + 1) <= 4 * q
BY DEF AmountPixels

\* Whatever the level, the clamp makes a percentage of it.
LEMMA ClampedFacts ==
    /\ \A level \in Levels \cup {SilentLevel} : Clamped(level) \in 0 .. 100
    /\ Clamped(SilentLevel) = 0
<1>1. Levels \cup {SilentLevel} \subseteq Int
  BY ShowAssumption DEF SilentLevel
<1> QED
  BY <1>1 DEF Clamped, SilentLevel

\* The invariant holds in the beginning.
LEMMA InitInv == Init => FrameInv
BY LineFacts DEF Init, FrameInv, Types, Buffer, WholeFrames

\* Writing a line finishes it and leaves the others alone.
LEMMA SetsLineInv == FrameInv /\ SetsLine => FrameInv'
<1> SUFFICES ASSUME FrameInv, SetsLine PROVE FrameInv'
  OBVIOUS
<1> DEFINE amount == AmountPixels(bandPercentages[line])
<1>1. /\ pc = "lines" /\ line \in Lines
      /\ bandPercentages[line] \in 0 .. 100
      /\ amount \in 0 .. 8
      /\ \A i \in 0 .. 7 : i < amount <=> 25 * (2 * i + 1) <= 4 * bandPercentages[line]
  BY AmountFacts DEF SetsLine, FrameInv, Types
<1>2. SetPixelsInLine(amount)
  BY <1>1 DEF SetsLine, PixelsPerLine
<1>3. /\ UNCHANGED <<pc, bandPercentages, shown>>
      /\ line' = line + 1
      /\ pixels' = [p \in Pixel |->
                      IF \E i \in 0 .. amount - 1 : p = PixelOf(line, i) THEN line
                      ELSE pixels[p]]
  BY <1>2 DEF SetPixelsInLine, frameVars
<1>4. Types'
  <2>1. line' \in Lines \cup {Len(BandEdges)}
    BY <1>1, <1>3, LineFacts
  <2>2. bandPercentages' \in [Lines -> 0 .. 100]
    BY <1>3 DEF FrameInv, Types
  <2> QED
    BY <1>1, <1>3, <2>1, <2>2 DEF Types
<1>5. ASSUME NEW p \in Pixel
      PROVE  pixels'[p] = IF LineOf(p) < line + 1 THEN Bars(bandPercentages)[p] ELSE 0
  <2>1. pixels[p] = IF LineOf(p) < line THEN Bars(bandPercentages)[p] ELSE 0
    BY <1>1 DEF FrameInv, Buffer
  <2>2. (\E i \in 0 .. amount - 1 : p = PixelOf(line, i))
          <=> LineOf(p) = line /\ p % PixelsPerLine < amount
    BY <1>1, PixelFacts
  <2>3. Bars(bandPercentages)[p] =
          IF 25 * (2 * (p % PixelsPerLine) + 1) <= 4 * bandPercentages[LineOf(p)]
          THEN LineOf(p) ELSE 0
    BY DEF Bars, LineOf
  <2>4. LineOf(p) \in Int /\ line \in Int /\ p % PixelsPerLine \in 0 .. 7
    BY <1>1, PixelFacts, LineFacts
  <2>5. CASE LineOf(p) = line
    BY <1>1, <1>3, <2>1, <2>2, <2>3, <2>4, <2>5
  <2>6. CASE LineOf(p) # line
    BY <1>3, <2>1, <2>2, <2>4, <2>6
  <2> QED
    BY <2>5, <2>6
<1>6. Buffer'
  BY <1>3, <1>5 DEF Buffer
<1>7. WholeFrames'
  BY <1>1, <1>3 DEF FrameInv, WholeFrames
<1> QED
  BY <1>4, <1>6, <1>7 DEF FrameInv

\* Every step keeps the invariant.
LEMMA NextInv == FrameInv /\ [Next]_vars => FrameInv'
<1> SUFFICES ASSUME FrameInv, [Next]_vars PROVE FrameInv'
  OBVIOUS
<1>1. CASE LoadSong
  BY <1>1 DEF LoadSong, Terminates, frameVars, FrameInv, Types, Buffer, WholeFrames
<1>2. CASE DrawsPiece
  <2>1. CASE Analyses(Size(currentBit))
    <3>1. /\ bandPercentages' \in [Lines -> 0 .. 100]
          /\ pixels' = Dark /\ shown' = Dark /\ line' = 1 /\ pc' = "lines"
      <4>1. PICK normalized \in [Lines -> Levels \cup {SilentLevel}] :
               bandPercentages' = [b \in Lines |-> Clamped(normalized[b])]
        BY <2>1 DEF Analyses
      <4>2. \A b \in Lines : Clamped(normalized[b]) \in 0 .. 100
        BY ClampedFacts
      <4> QED
        BY <2>1, <4>1, <4>2 DEF Analyses, ClearAllPixels
    <3>2. \A p \in Pixel : ~(LineOf(p) < 1)
      BY PixelFacts, LineFacts
    <3>3. Buffer'
      BY <3>1, <3>2 DEF Buffer, Dark
    <3> QED
      BY <3>1, <3>3, LineFacts DEF FrameInv, Types, WholeFrames
  <2>2. CASE Terminates("fft")
    BY <2>2 DEF Terminates, frameVars, FrameInv, Types, Buffer, WholeFrames
  <2> QED
    BY <1>2, <2>1, <2>2 DEF DrawsPiece
<1>3. CASE SetsLine
  BY <1>3, SetsLineInv
<1>4. CASE ShowPixels
  <2>1. /\ pc = "lines" /\ line = Len(BandEdges) /\ shown' = pixels
        /\ pc' = "frame" /\ UNCHANGED <<bandPercentages, line>>
    BY <1>4 DEF ShowPixels, frameVars, FrameInv, Types
  <2>2. pixels = Bars(bandPercentages)
    <3>1. \A p \in Pixel : LineOf(p) < line
      BY <2>1, PixelFacts, LineFacts
    <3>2. Bars(bandPercentages) = [p \in Pixel |-> Bars(bandPercentages)[p]]
      BY DEF Bars
    <3> QED
      BY <2>1, <3>1, <3>2 DEF FrameInv, Buffer
  <2> QED
    BY <2>1, <2>2 DEF FrameInv, Types, Buffer, WholeFrames
<1>5. CASE SongEnds
  BY <1>5 DEF SongEnds, FrameInv, Types, Buffer, WholeFrames
<1>6. CASE Leaves
  BY <1>6 DEF Leaves, ClearAllPixels, frameVars, FrameInv, Types, Buffer, WholeFrames
<1>7. CASE Finished \/ UNCHANGED vars
  BY <1>7 DEF Finished, vars, FrameInv, Types, Buffer, WholeFrames
<1> QED
  BY <1>1, <1>2, <1>3, <1>4, <1>5, <1>6, <1>7 DEF Next

(* The matrix is dark or shows one whole frame, each line as high as its band,
   and is dark when the program has left (pyInterface.cpp:22-38).            *)
THEOREM FramesAreWhole == Spec => []WholeFrames
<1>1. FrameInv => WholeFrames
  BY DEF FrameInv
<1> QED
  BY <1>1, InitInv, NextInv, PTL DEF Spec

---------------------------------------------------------------------------
\* The song, its mean and its pieces.

\* What division yields, for numbers that are not negative.
LEMMA DivFacts ==
    ASSUME NEW a \in Nat, NEW b \in Nat \ {0}
    PROVE  a \div b \in Nat /\ (a \div b) * b <= a /\ a < (a \div b) * b + b
OBVIOUS

\* A song has at most 16 samples, from place 0.
LEMMA SongFacts ==
    ASSUME NEW s \in Songs
    PROVE  /\ s.rate \in Nat /\ SamplesPrDFT(s) \in Nat
           /\ NumSamples(s) \in (0 .. 16) \ {1}
           /\ DOMAIN s.samples = 0 .. NumSamples(s) - 1 /\ IsFiniteSet(DOMAIN s.samples)
           /\ \A i \in DOMAIN s.samples : s.samples[i] \in Number /\ s.samples[i] \in Int
<1>1. PICK n \in (0 .. 16) \ {1} : s.samples \in [0 .. n - 1 -> Number]
  BY SongsAssumption DEF Order, Modulus
<1>2. NumSamples(s) = n /\ DOMAIN s.samples = 0 .. n - 1 /\ IsFiniteSet(0 .. n - 1)
  <2>1. DOMAIN s.samples = 0 .. n - 1 /\ 0 \in Int /\ n - 1 \in Int
    BY <1>1
  <2>2. IsFiniteSet(0 .. n - 1) /\ Cardinality(0 .. n - 1) = n
    BY <2>1, FS_Interval
  <2> QED
    BY <2>1, <2>2 DEF NumSamples
<1>4. \A i \in 0 .. n - 1 : s.samples[i] \in Number /\ s.samples[i] \in Int
  <2>1. \A i \in 0 .. n - 1 : s.samples[i] \in Number
    BY <1>1
  <2>2. Number \subseteq Int
    BY DEF Number, Order, Modulus
  <2> QED
    BY <2>1, <2>2
<1>3. s.rate \in Nat /\ DFTsPrSecond \in Nat \ {0}
  BY SongsAssumption, ShowAssumption
<1> QED
  BY <1>2, <1>3, <1>4, DivFacts DEF SamplesPrDFT

\* The least element of a set of numbers.
LEMMA MinIs ==
    ASSUME NEW S, S \subseteq Int, NEW m \in S, \A y \in S : m <= y
    PROVE  Min(S) = m
<1>1. \A x \in S : (\A y \in S : x <= y) => x = m
  OBVIOUS
<1> QED
  BY <1>1 DEF Min

\* The definition of TwoTo has a solution.
LEMMA TwoToFacts ==
    /\ TwoTo[0] = 1
    /\ \A k \in Nat : TwoTo[k + 1] = 2 * TwoTo[k]
    /\ \A k \in Nat : TwoTo[k] \in Nat \ {0}
<1>1. TwoTo = CHOOSE p : Doubles(p)
  BY DEF TwoTo, Doubles
<1>2. Doubles(TwoTo)
  BY <1>1, DoublingExists
<1> QED
  BY <1>2, DoublingFacts

\* A power of two exceeds its exponent.
LEMMA TwoToGrows == \A k \in Nat : TwoTo[k] > k
<1> DEFINE Good == {k \in Nat : TwoTo[k] > k}
<1>1. 0 \in Good
  BY TwoToFacts
<1>2. ASSUME NEW k \in Nat, k \in Good PROVE k + 1 \in Good
  <2>1. TwoTo[k + 1] = 2 * TwoTo[k] /\ TwoTo[k] \in Nat /\ TwoTo[k] > k
    BY <1>2, TwoToFacts
  <2> QED
    BY <2>1
<1> HIDE DEF Good
<1>3. Nat \subseteq Good
  BY <1>1, <1>2, NumberInduction
<1> QED
  BY <1>3 DEF Good

\* A song is padded to a size that is not smaller.
LEMMA SongPaddedSizeFacts ==
    ASSUME NEW size \in Nat
    PROVE  SongPaddedSize(size) \in Nat /\ size <= SongPaddedSize(size)
<1>1. CASE size = 0
  BY <1>1 DEF SongPaddedSize
<1>2. CASE size # 0
  <2> DEFINE fit == {k \in 0 .. size : TwoTo[k] >= size}
  <2>1. size \in fit /\ fit \subseteq Nat
    BY TwoToGrows, TwoToFacts
  <2>2. PICK m \in fit : \A k \in fit : m <= k
    BY <2>1, LeastNumber
  <2>3. m \in Nat /\ TwoTo[m] >= size /\ fit \subseteq Int
    BY <2>1
  <2> HIDE DEF fit
  <2>4. Min(fit) = m
    BY <2>2, <2>3, MinIs
  <2>5. SongPaddedSize(size) = TwoTo[m]
    BY <1>2, <2>4 DEF SongPaddedSize, fit
  <2> QED
    BY <2>3, <2>5, TwoToFacts
<1> QED
  BY <1>1, <1>2

\* The loop of the padding: a turn doubles the size while it is too small.
Turn(size) == [x \in Nat |-> IF x < size THEN 2 * x ELSE x]

Loops(f, size) == Steps(f, 1, Turn(size), 0 .. size)

\* After every turn the size is a power of two less than twice the size needed;
\* and it is large enough, or each turn has doubled it.
Fits(f, size, turn, k) == /\ f[turn] = TwoTo[k] /\ f[turn] < 2 * size
                          /\ f[turn] >= size \/ k = turn
\* This holds of every loop.
LEMMA PaddingLoop ==
    ASSUME NEW size \in Nat \ {0}, NEW f, Loops(f, size)
    PROVE  \A turn \in 0 .. size : \E k \in Nat : Fits(f, size, turn, k)
<1> DEFINE Good == {turn \in Nat : turn <= size => \E k \in Nat : Fits(f, size, turn, k)}
<1>1. 0 \in Good
  <2>1. f[0] = 1 /\ TwoTo[0] = 1
    BY TwoToFacts DEF Loops, Steps
  <2>2. Fits(f, size, 0, 0)
    BY <2>1 DEF Fits
  <2> QED
    BY <2>2
<1>2. ASSUME NEW turn \in Nat, turn \in Good PROVE turn + 1 \in Good
  <2> SUFFICES ASSUME turn + 1 <= size PROVE \E k \in Nat : Fits(f, size, turn + 1, k)
    OBVIOUS
  <2>1. turn + 1 \in 0 .. size /\ turn + 1 # 0 /\ turn + 1 - 1 = turn /\ turn <= size
    OBVIOUS
  <2>2. PICK k \in Nat : Fits(f, size, turn, k)
    BY <1>2, <2>1
  <2>3. f[turn] = TwoTo[k] /\ TwoTo[k] \in Nat
    BY <2>2, TwoToFacts DEF Fits
  <2>4. f[turn + 1] = Turn(size)[f[turn]]
    BY <2>1 DEF Loops, Steps
  <2>5. f[turn + 1] = IF f[turn] < size THEN 2 * f[turn] ELSE f[turn]
    BY <2>3, <2>4 DEF Turn
  <2>6. CASE f[turn] < size
    <3>1. f[turn + 1] = TwoTo[k + 1] /\ f[turn + 1] < 2 * size
      <4>1. TwoTo[k + 1] = 2 * TwoTo[k]
        BY TwoToFacts
      <4>2. f[turn + 1] = 2 * TwoTo[k] /\ TwoTo[k] < size
        BY <2>3, <2>5, <2>6
      <4> QED
        BY <2>3, <4>1, <4>2
    <3>2. k = turn
      BY <2>2, <2>3, <2>6 DEF Fits
    <3>3. Fits(f, size, turn + 1, k + 1)
      BY <3>1, <3>2 DEF Fits
    <3> QED
      BY <3>3
  <2>7. CASE ~(f[turn] < size)
    <3>1. f[turn + 1] = f[turn] /\ f[turn] >= size
      BY <2>3, <2>5, <2>7
    <3>2. Fits(f, size, turn + 1, k)
      BY <2>2, <3>1 DEF Fits
    <3> QED
      BY <3>2
  <2> QED
    BY <2>6, <2>7
<1> HIDE DEF Good
<1>3. Nat \subseteq Good
  BY <1>1, <1>2, NumberInduction
<1> QED
  BY <1>3 DEF Good

\* A piece is padded to a power of two, to less than twice its size.
LEMMA PaddedSizeFacts ==
    ASSUME NEW size \in Nat \ {0}
    PROVE  /\ \E k \in Nat : PaddedSize(size) = TwoTo[k]
           /\ PaddedSize(size) \in Nat /\ size <= PaddedSize(size) /\ PaddedSize(size) < 2 * size
<1> DEFINE Loop(f) == f = [turn \in 0 .. size |->
                              IF turn = 0 THEN 1
                              ELSE IF f[turn - 1] < size THEN 2 * f[turn - 1] ELSE f[turn - 1]]
           f == CHOOSE g : Loop(g)
<1>1. PaddedSize(size) = f[size]
  BY DEF PaddedSize
<1>2. PICK g : Loops(g, size)
  BY StepsExist DEF Loops
<1>3. \A turn \in 0 .. size : g[turn] \in Nat
  <2>1. \A turn \in 0 .. size : \E k \in Nat : Fits(g, size, turn, k)
    BY <1>2, PaddingLoop
  <2> QED
    BY <2>1, TwoToFacts DEF Fits
<1>4. Loop(g)
  <2>1. \A turn \in 0 .. size : turn # 0 => turn - 1 \in 0 .. size
    OBVIOUS
  <2>2. \A turn \in 0 .. size : turn # 0 =>
           Turn(size)[g[turn - 1]] = IF g[turn - 1] < size THEN 2 * g[turn - 1] ELSE g[turn - 1]
    BY <1>3, <2>1 DEF Turn
  <2> QED
    BY <1>2, <2>2 DEF Loops, Steps
<1>5. Loop(f)
  BY <1>4
<1> HIDE DEF f
<1>6. Loops(f, size)
  <2> DEFINE Same == {turn \in Nat : turn <= size => f[turn] = g[turn]}
  <2>1. 0 \in Same
    BY <1>4, <1>5
  <2>2. ASSUME NEW turn \in Nat, turn \in Same PROVE turn + 1 \in Same
    <3> SUFFICES ASSUME turn + 1 <= size PROVE f[turn + 1] = g[turn + 1]
      OBVIOUS
    <3>1. turn + 1 \in 0 .. size /\ turn + 1 # 0 /\ turn + 1 - 1 = turn /\ f[turn] = g[turn]
      BY <2>2
    <3>2. f[turn + 1] = IF f[turn] < size THEN 2 * f[turn] ELSE f[turn]
      BY <1>5, <3>1
    <3>3. g[turn + 1] = IF g[turn] < size THEN 2 * g[turn] ELSE g[turn]
      BY <1>4, <3>1
    <3> QED
      BY <3>1, <3>2, <3>3
  <2> HIDE DEF Same
  <2>3. Nat \subseteq Same
    BY <2>1, <2>2, NumberInduction
  <2>4. \A turn \in 0 .. size : f[turn] = g[turn]
    BY <2>3 DEF Same
  <2>5. f = [turn \in 0 .. size |-> f[turn]] /\ g = [turn \in 0 .. size |-> g[turn]]
    BY <1>4, <1>5
  <2>6. f = g
    BY <2>4, <2>5
  <2> QED
    BY <1>2, <2>6
<1>7. PICK k \in Nat : Fits(f, size, size, k)
  <2>1. size \in 0 .. size
    OBVIOUS
  <2> QED
    BY <1>6, <2>1, PaddingLoop
<1>8. TwoTo[k] \in Nat /\ TwoTo[k] > k
  BY TwoToFacts, TwoToGrows
<1> QED
  BY <1>1, <1>7, <1>8 DEF Fits

\* The powers of two up to 16 are those the transform accepts.
LEMMA SmallPowers ==
    ASSUME NEW k \in Nat, TwoTo[k] < 32
    PROVE  TwoTo[k] \in PowersOfTwo
<1>1. TwoTo[1] = 2 /\ TwoTo[2] = 4 /\ TwoTo[3] = 8 /\ TwoTo[4] = 16
  <2>1. TwoTo[0 + 1] = 2 /\ TwoTo[1 + 1] = 2 * TwoTo[1] /\ TwoTo[2 + 1] = 2 * TwoTo[2]
        /\ TwoTo[3 + 1] = 2 * TwoTo[3]
    BY TwoToFacts
  <2> QED
    BY <2>1
<1> DEFINE Good == {j \in Nat : j >= 5 => TwoTo[j] >= 32}
<1>2. 0 \in Good
  OBVIOUS
<1>3. ASSUME NEW j \in Nat, j \in Good PROVE j + 1 \in Good
  <2>1. TwoTo[j + 1] = 2 * TwoTo[j] /\ TwoTo[j] \in Nat
    BY TwoToFacts
  <2>2. CASE j = 4
    BY <1>1, <2>1, <2>2
  <2>3. CASE j >= 5
    BY <1>3, <2>1, <2>3
  <2>4. CASE j < 4
    BY <2>4
  <2> QED
    BY <2>2, <2>3, <2>4
<1> HIDE DEF Good
<1>4. Nat \subseteq Good
  BY <1>2, <1>3, NumberInduction
<1>5. k < 5
  <2>1. k \in Good /\ TwoTo[k] \in Nat
    BY <1>4, TwoToFacts
  <2> QED
    BY <2>1 DEF Good
<1>6. k \in {0, 1, 2, 3, 4}
  BY <1>5
<1> QED
  BY <1>1, <1>6, TwoToFacts DEF PowersOfTwo

\* The test of bits accepts every power of two.
LEMMA PowersAccepted ==
    ASSUME NEW n \in PowersOfTwo
    PROVE  isPowerOfTwo(n) /\ checkNumElements(n)
<1>1. ASSUME NEW mask \in PowersOfTwo, HasBit(n, mask), HasBit(n - 1, mask)
      PROVE  FALSE
  BY <1>1 DEF PowersOfTwo, HasBit
<1>2. n # 0
  BY DEF PowersOfTwo
<1> QED
  BY <1>1, <1>2 DEF isPowerOfTwo, checkNumElements

\* Every number of samples has an inverse.
LEMMA Inverse17Facts ==
    ASSUME NEW n \in 1 .. 16
    PROVE  Inverse17(n) \in Number /\ (n * Inverse17(n)) % 17 = 1
<1> DEFINE inverse == <<1, 9, 6, 13, 7, 3, 5, 15, 2, 12, 14, 10, 4, 11, 8, 16>>
<1>1. inverse[n] \in Number /\ (n * inverse[n]) % 17 = 1
  BY DEF Number, Order, Modulus
<1> HIDE DEF inverse
<1> QED
  BY <1>1, Zenon DEF Inverse17, Modulus

\* The mean is a number.
LEMMA MeanType ==
    ASSUME NEW s \in Songs, NumSamples(s) # 0
    PROVE  Mean(s) \in Number
<1>1. SumFunction(s.samples) \in Int
  <2>1. IsFiniteSet(DOMAIN s.samples) /\ \A i \in DOMAIN s.samples : s.samples[i] \in Int
    BY SongFacts
  <2> QED
    BY <2>1, SumType DEF SumFunction
<1>2. Inverse17(NumSamples(s)) \in Int
  <2>1. NumSamples(s) \in 1 .. 16
    BY SongFacts
  <2> QED
    BY <2>1, Inverse17Facts DEF Number, Order, Modulus
<1>3. SumFunction(s.samples) * Inverse17(NumSamples(s)) \in Int
  BY <1>1, <1>2
<1> QED
  BY <1>3 DEF Mean, Number, Order, Modulus

\* Preparing a song keeps its samples numbers.
LEMMA PreparedType ==
    ASSUME NEW s \in Songs
    PROVE  Prepared(s) \in [0 .. NumSamples(s) - 1 -> Number]
<1>1. ASSUME NEW i \in DOMAIN s.samples
      PROVE  ((s.samples[i] - Mean(s)) * Window(i, NumSamples(s))) % Modulus \in Number
  <2>1. DOMAIN s.samples = 0 .. NumSamples(s) - 1 /\ s.samples[i] \in Int
    BY SongFacts
  <2>2. NumSamples(s) # 0
    BY <2>1, SongFacts
  <2>3. Mean(s) \in Int /\ Window(i, NumSamples(s)) \in Int
    BY <2>2, MeanType DEF Number, Order, Modulus, Window
  <2>4. (s.samples[i] - Mean(s)) * Window(i, NumSamples(s)) \in Int
    BY <2>1, <2>3
  <2> QED
    BY <2>4 DEF Number, Order, Modulus
<1>2. DOMAIN s.samples = 0 .. NumSamples(s) - 1
  BY SongFacts
<1> QED
  BY <1>1, <1>2 DEF Prepared

\* A piece is the next samples of the prepared song, and silence.
LEMMA SegmentFacts ==
    ASSUME NEW n \in Nat, NEW s, DOMAIN s.samples = 0 .. n - 1,
           SamplesPrDFT(s) \in Nat \ {0},
           NEW i \in 1 .. n \div SamplesPrDFT(s)
    PROVE  LET spd == SamplesPrDFT(s)
               piece == Segment(s, i - 1)
           IN  /\ spd <= n /\ Size(piece) = PaddedSize(spd)
               /\ DOMAIN piece = 0 .. PaddedSize(spd) - 1
               /\ \A x \in DOMAIN piece :
                     piece[x] = IF x < spd THEN Prepared(s)[(i - 1) * spd + x] ELSE 0
               /\ \A x \in DOMAIN piece : x < spd => (i - 1) * spd + x \in 0 .. n - 1
<1> DEFINE piece == Segment(s, i - 1)
           spd == SamplesPrDFT(s)
<1>0. spd \in Nat \ {0} /\ i \in 1 .. n \div spd
  OBVIOUS
<1>1. DOMAIN Prepared(s) = 0 .. n - 1
  BY DEF Prepared
<1>2. n \div spd \in Nat /\ (n \div spd) * spd <= n
  BY <1>0, DivFacts
<1> HIDE DEF spd
<1>3. i \in Nat /\ i >= 1 /\ i <= n \div spd
  BY <1>0, <1>2
<1>4. i * spd <= (n \div spd) * spd
  BY <1>0, <1>2, <1>3
<1>5. i * spd = (i - 1) * spd + spd /\ (i - 1) * spd \in Nat
  BY <1>0, <1>3
<1>6. (i - 1) * spd + spd <= n
  BY <1>0, <1>2, <1>4, <1>5
<1>7. \A x \in 0 .. spd - 1 : (i - 1) * spd + x \in 0 .. n - 1
  BY <1>0, <1>5, <1>6
<1>8. NumSamples(s) = n
  BY FS_Interval DEF NumSamples
<1>9. SongPaddedSize(n) \in Nat /\ n <= SongPaddedSize(n)
  BY SongPaddedSizeFacts
<1>10. \A y \in 0 .. n - 1 : FFTReadyVector(s)[y] = Prepared(s)[y]
  <2>1. \A y \in 0 .. n - 1 : y \in 0 .. SongPaddedSize(n) - 1
    BY <1>9
  <2>2. \A y \in 0 .. SongPaddedSize(n) - 1 :
           FFTReadyVector(s)[y] = IF y \in DOMAIN Prepared(s) THEN Prepared(s)[y] ELSE 0
    BY <1>8 DEF FFTReadyVector, PaddedTo
  <2> QED
    BY <1>1, <2>1, <2>2
<1>11. PaddedSize(spd) \in Nat /\ spd <= PaddedSize(spd)
  BY <1>0, PaddedSizeFacts
<1>12. piece = PaddedTo([x \in 0 .. spd - 1 |-> FFTReadyVector(s)[(i - 1) * spd + x]], PaddedSize(spd))
  BY DEF Segment, spd
<1> HIDE DEF piece
<1>13. /\ DOMAIN piece = 0 .. PaddedSize(spd) - 1
       /\ \A x \in DOMAIN piece :
             piece[x] = IF x \in 0 .. spd - 1 THEN FFTReadyVector(s)[(i - 1) * spd + x] ELSE 0
  BY <1>12 DEF PaddedTo
<1>14. Size(piece) = PaddedSize(spd)
  <2>1. PICK m \in Nat \ {0} : m = PaddedSize(spd)
    BY <1>0, <1>11
  <2>2. Cardinality(0 .. m - 1) = m
    <3>1. 0 \in Int /\ m - 1 \in Int
      OBVIOUS
    <3> QED
      BY <3>1, FS_Interval
  <2> QED
    BY <1>13, <2>1, <2>2 DEF Size
<1>15. \A x \in DOMAIN piece : x \in 0 .. spd - 1 <=> x < spd
  BY <1>0, <1>11, <1>13
<1>16. spd <= n
  BY <1>0, <1>5, <1>6
<1> QED
  BY <1>7, <1>10, <1>13, <1>14, <1>15, <1>16 DEF piece, spd

\* A song is cut into as many pieces as go into it.
LEMMA CutUpIs ==
    ASSUME NEW n \in Nat, NEW s, DOMAIN s.samples = 0 .. n - 1,
           SamplesPrDFT(s) \in Nat \ {0}
    PROVE  /\ NumSamples(s) = n
           /\ n \div SamplesPrDFT(s) \in Nat /\ Len(CutUpVector(s)) = n \div SamplesPrDFT(s)
           /\ DOMAIN CutUpVector(s) = 1 .. n \div SamplesPrDFT(s)
           /\ \A i \in 1 .. n \div SamplesPrDFT(s) : CutUpVector(s)[i] = Segment(s, i - 1)
<1>1. PICK k \in Nat : k = n \div SamplesPrDFT(s)
  BY DivFacts
<1>2. NumSamples(s) = n
  BY FS_Interval DEF NumSamples
<1>3. CutUpVector(s) = [i \in 1 .. k |-> Segment(s, i - 1)]
  BY <1>1, <1>2 DEF CutUpVector
<1>4. Len(CutUpVector(s)) = k
  BY <1>1, <1>3
<1> QED
  BY <1>1, <1>2, <1>3, <1>4

(* A song of any length and any rate from DFTsPrSecond on is cut into pieces that
   follow each other without gap or overlap and leave less than a piece over,
   each padded with silence to a power of two less than twice as long; pieces of
   44100 / 30 = 1470 samples to 2048, say (AudioFileWrapper.cpp:118-176).    *)
THEOREM CuttingCovers ==
    ASSUME NEW n \in Nat, NEW s, DOMAIN s.samples = 0 .. n - 1,
           SamplesPrDFT(s) \in Nat \ {0}
    PROVE  LET spd == SamplesPrDFT(s)
               pieces == CutUpVector(s)
           IN  /\ Len(pieces) * spd <= n /\ n < Len(pieces) * spd + spd
               /\ \A i \in DOMAIN pieces :
                     /\ \E k \in Nat : Size(pieces[i]) = TwoTo[k]
                     /\ spd <= Size(pieces[i]) /\ Size(pieces[i]) < 2 * spd
                     /\ \A x \in DOMAIN pieces[i] :
                           pieces[i][x] =
                               IF x < spd THEN Prepared(s)[(i - 1) * spd + x] ELSE 0
<1> DEFINE pieces == CutUpVector(s)
           spd == SamplesPrDFT(s)
<1>1. /\ Len(pieces) = n \div spd /\ DOMAIN pieces = 1 .. n \div spd
      /\ \A i \in 1 .. n \div spd : pieces[i] = Segment(s, i - 1)
  BY CutUpIs
<1>2. (n \div spd) * spd <= n /\ n < (n \div spd) * spd + spd
  BY DivFacts
<1>3. ASSUME NEW i \in DOMAIN pieces
      PROVE  /\ \E k \in Nat : Size(pieces[i]) = TwoTo[k]
             /\ spd <= Size(pieces[i]) /\ Size(pieces[i]) < 2 * spd
             /\ \A x \in DOMAIN pieces[i] :
                   pieces[i][x] = IF x < spd THEN Prepared(s)[(i - 1) * spd + x] ELSE 0
  <2> HIDE DEF pieces
  <2>1. i \in 1 .. n \div spd /\ pieces[i] = Segment(s, i - 1)
    BY <1>1
  <2>2. /\ Size(pieces[i]) = PaddedSize(spd)
        /\ \A x \in DOMAIN pieces[i] :
              pieces[i][x] = IF x < spd THEN Prepared(s)[(i - 1) * spd + x] ELSE 0
    BY <2>1, SegmentFacts
  <2> QED
    BY <2>2, PaddedSizeFacts
<1> QED
  BY <1>1, <1>2, <1>3

\* A song that never moves is its mean, which is taken away from it: it is
\* prepared to silence.
LEMMA ConstantIsPreparedToSilence ==
    ASSUME NEW s \in Songs, \A i, j \in DOMAIN s.samples : s.samples[i] = s.samples[j],
           NEW x \in 0 .. NumSamples(s) - 1
    PROVE  Prepared(s)[x] = 0
<1> DEFINE n == NumSamples(s)
           c == s.samples[x]
<1>1. /\ DOMAIN s.samples = 0 .. n - 1 /\ IsFiniteSet(DOMAIN s.samples)
      /\ Cardinality(DOMAIN s.samples) = n /\ n \in 0 .. 16
      /\ \A i \in DOMAIN s.samples : s.samples[i] \in Number
  BY SongFacts, Zenon DEF NumSamples
<1>2. n \in 1 .. 16 /\ c \in 0 .. 16
  BY <1>1 DEF Number, Order, Modulus
<1>3. \A i \in DOMAIN s.samples : s.samples[i] = c
  BY <1>1
<1> HIDE DEF n, c
<1>4. SumFunction(s.samples) = c * n
  <2>1. c \in Int
    BY <1>2
  <2> QED
    BY <1>1, <1>3, <2>1, SumOfConstant DEF SumFunction
<1> DEFINE m == Inverse17(n)
<1>5. m \in Int /\ (n * m) % 17 = 1
  BY <1>2, Inverse17Facts DEF Number, Order, Modulus
<1> HIDE DEF m
<1>6. (c * n * m) % 17 = c
  <2>1. PICK k \in Int : n * m = 17 * k + 1
    <3>1. n * m \in Int
      BY <1>2, <1>5
    <3> HIDE DEF n, m
    <3>2. \A p \in Int : p % 17 = 1 => p = 17 * (p \div 17) + 1 /\ p \div 17 \in Int
      OBVIOUS
    <3> QED
      BY <1>5, <3>1, <3>2
  <2>2. c * n * m = 17 * (c * k) + c
    <3>1. c * n * m = c * (n * m)
      BY <1>2, <1>5
    <3>2. c * (17 * k + 1) = 17 * (c * k) + c
      BY <1>2
    <3> QED
      BY <2>1, <3>1, <3>2
  <2>3. c * k \in Int
    BY <1>2
  <2>4. \A p \in Int : (17 * p + c) % 17 = c
    BY <1>2
  <2> QED
    BY <2>2, <2>3, <2>4
<1>7. Mean(s) = c
  BY <1>4, <1>6 DEF Mean, n, m, Modulus
<1>8. Window(x, n) \in Int
  BY DEF Window
<1>9. ((c - c) * Window(x, n)) % 17 = 0
  BY <1>2, <1>8
<1> QED
  BY <1>1, <1>7, <1>9 DEF Prepared, n, c, Modulus

\* The edges of the bands start at zero and increase.
LEMMA EdgeFacts ==
    /\ Len(BandEdges) \in Nat /\ Len(BandEdges) > 1 /\ Lines = 1 .. Len(BandEdges) - 1
    /\ BandEdges[1] = 0
    /\ \A b \in Lines : BandEdges[b] \in Nat /\ BandEdges[b + 1] \in Nat /\ BandEdges[b] < BandEdges[b + 1]
BY ShowAssumption DEF Lines

\* The bins of all bands together are those above 0 Hz and up to the last edge.
LEMMA BandsPartition ==
    ASSUME song \in Songs, NEW size \in Nat
    PROVE  /\ \A b \in Lines : Cardinality(BinsOfBand(size, b)) \in Nat
           /\ SumFunctionOnSet([b \in Lines |-> Cardinality(BinsOfBand(size, b))], Lines) =
                Cardinality({i \in 0 .. size \div 2 - 1 :
                    /\ i * song.rate <= BandEdges[Len(BandEdges)] * size
                    /\ i * song.rate > 0})
<1> DEFINE count == [b \in Lines |-> Cardinality(BinsOfBand(size, b))]
           Upto(k) == {i \in 0 .. size \div 2 - 1 :
                          /\ i * song.rate <= BandEdges[k + 1] * size
                          /\ i * song.rate > 0}
           Good == {k \in Nat : k < Len(BandEdges) =>
                       SumFunctionOnSet(count, 1 .. k) = Cardinality(Upto(k))}
<1>1. song.rate \in Nat
  BY SongFacts
<1>2. IsFiniteSet(0 .. size \div 2 - 1) /\ \A i \in 0 .. size \div 2 - 1 : i * song.rate \in Int
  <2>1. 0 \in Int /\ size \div 2 - 1 \in Int
    OBVIOUS
  <2> QED
    BY <1>1, <2>1, FS_Interval
<1>3. /\ \A b \in Lines : IsFiniteSet(BinsOfBand(size, b)) /\ Cardinality(BinsOfBand(size, b)) \in Nat
      /\ \A k \in Nat : IsFiniteSet(Upto(k)) /\ Cardinality(Upto(k)) \in Nat
  BY <1>2, FS_Subset, FS_CardinalityType DEF BinsOfBand
<1>4. 0 \in Good
  <2>1. Upto(0) = {}
    <3> SUFFICES ASSUME NEW i \in Upto(0) PROVE FALSE
      OBVIOUS
    <3>1. BandEdges[0 + 1] * size = 0
      BY EdgeFacts
    <3> QED
      BY <1>2, <3>1
  <2>2. 1 .. 0 = {}
    OBVIOUS
  <2> QED
    BY <2>1, <2>2, SumOfNothing, FS_EmptySet
<1>5. ASSUME NEW k \in Nat, k \in Good PROVE k + 1 \in Good
  <2> SUFFICES ASSUME k + 1 < Len(BandEdges)
               PROVE  SumFunctionOnSet(count, 1 .. k + 1) = Cardinality(Upto(k + 1))
    OBVIOUS
  <2>0. PICK b \in Nat : b = k + 1
    OBVIOUS
  <2>1. b \in Lines /\ b \in 1 .. b /\ (1 .. b) \ {b} = 1 .. k /\ 1 .. b \subseteq Lines
    BY <2>0, EdgeFacts
  <2>2. IsFiniteSet(1 .. b)
    BY <2>0, FS_Interval
  <2>3. SumFunctionOnSet(count, 1 .. b) = count[b] + SumFunctionOnSet(count, 1 .. k)
    <3>1. \A x \in 1 .. b : count[x] \in Int
      BY <1>3, <2>1
    <3> HIDE DEF count
    <3>2. SumFunctionOnSet(count, 1 .. b) = count[b] + SumFunctionOnSet(count, (1 .. b) \ {b})
      BY <2>1, <2>2, <3>1, SumAdds
    <3> QED
      BY <2>1, <3>2
  <2>4. Upto(b) = Upto(k) \cup BinsOfBand(size, b) /\ Upto(k) \cap BinsOfBand(size, b) = {}
    <3>1. /\ BandEdges[b] * size \in Nat
          /\ BandEdges[b + 1] * size \in Nat
          /\ BandEdges[b] * size <= BandEdges[b + 1] * size
      BY <2>1, EdgeFacts
    <3> DEFINE low == BandEdges[b] * size
               high == BandEdges[b + 1] * size
               at(i) == i * song.rate
    <3>2. \A i \in 0 .. size \div 2 - 1 : at(i) \in Int
      BY <1>2
    <3>3. Upto(k) = {i \in 0 .. size \div 2 - 1 : at(i) <= low /\ at(i) > 0}
      BY <2>0
    <3>4. Upto(b) = {i \in 0 .. size \div 2 - 1 : at(i) <= high /\ at(i) > 0}
      OBVIOUS
    <3>5. BinsOfBand(size, b) = {i \in 0 .. size \div 2 - 1 : at(i) <= high /\ at(i) > low}
      BY DEF BinsOfBand, BinInBand
    <3>6. low \in Nat /\ high \in Nat /\ low <= high
      BY <3>1
    <3> HIDE DEF Upto, low, high, at
    <3> QED
      BY <3>2, <3>3, <3>4, <3>5, <3>6
  <2>5. Cardinality(Upto(b)) = Cardinality(Upto(k)) + Cardinality(BinsOfBand(size, b))
    <3>1. /\ IsFiniteSet(Upto(k)) /\ IsFiniteSet(BinsOfBand(size, b))
          /\ Cardinality(Upto(k)) \in Nat /\ Cardinality(BinsOfBand(size, b)) \in Nat
      BY <1>3, <2>1
    <3> HIDE DEF Upto
    <3> QED
      BY <2>4, <3>1, DisjointUnion
  <2>6. SumFunctionOnSet(count, 1 .. k) = Cardinality(Upto(k))
    BY <1>5
  <2>7. count[b] = Cardinality(BinsOfBand(size, b)) /\ count[b] \in Nat /\ Cardinality(Upto(k)) \in Nat
    BY <1>3, <2>1
  <2> HIDE DEF Upto, count
  <2> QED
    BY <2>0, <2>3, <2>5, <2>6, <2>7
<1>6. Nat \subseteq Good
  <2> HIDE DEF Good
  <2> QED
    BY <1>4, <1>5, NumberInduction
<1>7. PICK k \in Nat : k + 1 = Len(BandEdges)
  BY EdgeFacts
<1>8. SumFunctionOnSet(count, 1 .. k) = Cardinality(Upto(k)) /\ Lines = 1 .. k
  BY <1>6, <1>7, EdgeFacts
<1> QED
  BY <1>3, <1>7, <1>8

\* Every piece has a size that the transform accepts.
LEMMA PieceFacts ==
    ASSUME NEW s \in Songs, SamplesPrDFT(s) > 0,
           NEW i \in 1 .. NumSamples(s) \div SamplesPrDFT(s)
    PROVE  LET piece == Segment(s, i - 1)
           IN  /\ Size(piece) \in PowersOfTwo /\ Size(piece) \in Nat \ {0}
               /\ piece \in [0 .. Size(piece) - 1 -> Number]
<1> DEFINE spd == SamplesPrDFT(s)
           n == NumSamples(s)
           piece == Segment(s, i - 1)
<1>1. n \in 0 .. 16 /\ spd \in Nat \ {0} /\ DOMAIN s.samples = 0 .. n - 1
  BY SongFacts
<1>2. /\ spd <= n /\ Size(piece) = PaddedSize(spd)
      /\ DOMAIN piece = 0 .. PaddedSize(spd) - 1
      /\ \A x \in DOMAIN piece :
            piece[x] = IF x < spd THEN Prepared(s)[(i - 1) * spd + x] ELSE 0
      /\ \A x \in DOMAIN piece : x < spd => (i - 1) * spd + x \in 0 .. n - 1
  <2>1. n \in Nat
    BY <1>1
  <2> HIDE DEF n
  <2>2. i \in 1 .. n \div SamplesPrDFT(s)
    BY DEF n
  <2> QED
    BY <1>1, <2>1, <2>2, SegmentFacts
<1>3. piece = [x \in DOMAIN piece |-> piece[x]]
  BY DEF Segment, PaddedTo
<1> HIDE DEF piece, n, spd
<1>4. \A x \in DOMAIN piece : piece[x] \in Number
  <2>1. \A y \in 0 .. n - 1 : Prepared(s)[y] \in Number
    BY PreparedType DEF n
  <2>2. 0 \in Number
    BY DEF Number, Order, Modulus
  <2> QED
    BY <1>2, <2>1, <2>2
<1>5. PaddedSize(spd) \in PowersOfTwo
  <2>1. PICK k \in Nat : PaddedSize(spd) = TwoTo[k]
    BY <1>1, PaddedSizeFacts
  <2>2. PaddedSize(spd) < 2 * spd /\ PaddedSize(spd) \in Nat
    BY <1>1, PaddedSizeFacts
  <2>3. PaddedSize(spd) < 32
    BY <1>1, <1>2, <2>2
  <2> QED
    BY <2>1, <2>3, SmallPowers
<1>6. PaddedSize(spd) \in Nat \ {0}
  BY <1>5 DEF PowersOfTwo
<1>7. piece \in [0 .. Size(piece) - 1 -> Number]
  BY <1>2, <1>3, <1>4
<1> QED
  BY <1>2, <1>5, <1>6, <1>7 DEF piece

\* The pieces of a song of the model.
LEMMA CutUpFacts ==
    ASSUME NEW s \in Songs, SamplesPrDFT(s) > 0
    PROVE  /\ NumSamples(s) \div SamplesPrDFT(s) \in Nat
           /\ Len(CutUpVector(s)) = NumSamples(s) \div SamplesPrDFT(s)
           /\ DOMAIN CutUpVector(s) = 1 .. NumSamples(s) \div SamplesPrDFT(s)
           /\ \A i \in DOMAIN CutUpVector(s) : CutUpVector(s)[i] = Segment(s, i - 1)
<1>1. /\ NumSamples(s) \in Nat /\ SamplesPrDFT(s) \in Nat \ {0}
      /\ DOMAIN s.samples = 0 .. NumSamples(s) - 1
  BY SongFacts
<1> QED
  BY <1>1, CutUpIs

\* The discrete Fourier transform yields numbers.
LEMMA DFTType ==
    ASSUME NEW n \in PowersOfTwo, NEW data \in [0 .. n - 1 -> Number]
    PROVE  DFT(data, n) \in [0 .. n - 1 -> Number]
<1> SUFFICES ASSUME NEW k \in 0 .. n - 1
             PROVE  SumFunction([j \in 0 .. n - 1 |->
                       data[j] * Power[(j * k * (Order \div n)) % Order]]) % Modulus \in Number
  BY DEF DFT
<1> DEFINE f == [j \in 0 .. n - 1 |-> data[j] * Power[(j * k * (Order \div n)) % Order]]
<1>1. n \in Nat /\ IsFiniteSet(0 .. n - 1)
  <2>1. n \in Nat
    BY DEF PowersOfTwo
  <2>2. 0 \in Int /\ n - 1 \in Int
    BY <2>1
  <2> QED
    BY <2>1, <2>2, FS_Interval
<1>2. 16 \div n \in Int
  BY DEF PowersOfTwo
<1>3. ASSUME NEW j \in 0 .. n - 1
      PROVE  f[j] \in Int
  <2>1. data[j] \in Int
    BY DEF Number, Order, Modulus
  <2>2. j * k * (16 \div n) \in Int
    BY <1>1, <1>2
  <2>3. PICK p \in Int : p = j * k * (16 \div n)
    BY <2>2
  <2>4. Power[p % 16] \in Int
    <3>1. p % 16 \in 0 .. 16 /\ 0 .. 16 \subseteq Int
      OBVIOUS
    <3> QED
      BY <3>1, PowerFacts, Zenon
  <2>5. Order = 16
    BY DEF Order, Modulus
  <2>6. f[j] = data[j] * Power[(j * k * (16 \div n)) % 16]
    BY <2>5
  <2> HIDE DEF f
  <2> QED
    BY <2>1, <2>3, <2>4, <2>6
<1>4. DOMAIN f = 0 .. n - 1
  OBVIOUS
<1> HIDE DEF f
<1>5. SumFunction(f) \in Int
  BY <1>1, <1>3, <1>4, SumType DEF SumFunction
<1>6. SumFunction(f) % Modulus \in Number
  BY <1>5 DEF Number, Order, Modulus
<1> QED
  BY <1>6 DEF f

---------------------------------------------------------------------------
\* The song being shown.

\* The pieces are those of the song being shown, and none are left between songs.
Loaded ==
    /\ song \in Songs \cup {Silence}
    /\ currentBitIndex \in Nat
    /\ \/ songsBits = <<>> /\ pc \notin {"frame", "lines"}
       \/ /\ song \in Songs /\ SamplesPrDFT(song) > 0
          /\ songsBits = CutUpVector(song) /\ pc # "song"
    /\ pc \in {"frame", "lines"} => currentBitIndex <= Len(songsBits)

\* In a frame, spectrum and bins are those of the current piece, and a silent
\* piece has no loud band.
Analysed ==
    /\ Range(fftOutput) \subseteq Number
    /\ Range(bandCount) \subseteq Nat
    /\ pc = "lines" =>
          /\ currentBitIndex < Len(songsBits)
          /\ fftOutput = DFT(currentBit, Size(currentBit))
          /\ bandCount = [b \in Lines |-> Cardinality(BinsOfBand(Size(currentBit), b))]
          /\ IsSilent(currentBit) => bandPercentages = [b \in Lines |-> 0]

\* The program has ended for a song that could not be decoded or cut.
Ended ==
    /\ thrown \in {"none", "load", "rate"}
    /\ pc # "terminated" => thrown = "none"

\* A pixel is dark or has the colour of a line.
Coloured ==
    /\ pixels \in [Pixel -> Lines \cup {0}]
    /\ shown \in [Pixel -> Lines \cup {0}]

SongInv == Loaded /\ Analysed /\ Ended /\ Coloured

\* The piece at hand.
LEMMA CurrentFacts ==
    ASSUME Loaded, pc \in {"frame", "lines"}, currentBitIndex < Len(songsBits)
    PROVE  /\ song \in Songs /\ SamplesPrDFT(song) > 0
           /\ currentBitIndex + 1 \in 1 .. NumSamples(song) \div SamplesPrDFT(song)
           /\ currentBit = Segment(song, currentBitIndex)
           /\ Size(currentBit) \in PowersOfTwo /\ Size(currentBit) \in Nat \ {0}
           /\ currentBit \in [0 .. Size(currentBit) - 1 -> Number]
<1>1. /\ song \in Songs /\ SamplesPrDFT(song) > 0 /\ songsBits = CutUpVector(song)
      /\ currentBitIndex \in Nat
  BY DEF Loaded
<1>2. PICK i \in 1 .. NumSamples(song) \div SamplesPrDFT(song) :
         i = currentBitIndex + 1 /\ i - 1 = currentBitIndex
  BY <1>1, CutUpFacts
<1>3. currentBit = Segment(song, i - 1)
  BY <1>1, <1>2, CutUpFacts DEF currentBit
<1> QED
  BY <1>1, <1>2, <1>3, PieceFacts

\* The invariant of the song holds in the beginning.
LEMMA SongInit == Init => SongInv
<1> SUFFICES ASSUME Init PROVE SongInv
  OBVIOUS
<1>1. Loaded /\ Ended
  BY DEF Init, Loaded, Ended
<1>2. Analysed
  <2>1. Range(<<>>) = {}
    BY DEF Range
  <2> QED
    BY <2>1 DEF Init, Analysed
<1>3. Coloured
  BY DEF Init, Coloured, Dark
<1> QED
  BY <1>1, <1>2, <1>3 DEF SongInv

\* An exception leaves everything but the cause as it was.
LEMMA TerminatesInv ==
    ASSUME SongInv, NEW what \in {"load", "rate"}, Terminates(what),
           song' \in Songs \cup {Silence}, songsBits = <<>>
    PROVE  SongInv'
<1>1. /\ pc' = "terminated" /\ thrown' = what
      /\ UNCHANGED <<songsBits, currentBitIndex, fftOutput, bandCount, pixels, shown>>
  BY DEF Terminates, frameVars
<1> QED
  BY <1>1 DEF SongInv, Loaded, Analysed, Ended, Coloured

\* A song is loaded whole or ends the program.
LEMMA LoadSongInv == SongInv /\ LoadSong => SongInv'
<1> SUFFICES ASSUME SongInv, LoadSong PROVE SongInv'
  OBVIOUS
<1>1. songsBits = <<>> /\ pc = "song" /\ song \in Songs \cup {Silence}
  BY DEF LoadSong, SongInv, Loaded
<1>2. CASE Terminates("load") /\ UNCHANGED song
  BY <1>1, <1>2, TerminatesInv
<1>3. CASE song' \in Songs /\ SamplesPrDFT(song') <= 0 /\ Terminates("rate")
  BY <1>1, <1>3, TerminatesInv
<1>4. CASE /\ song' \in Songs /\ SamplesPrDFT(song') > 0
           /\ songsBits' = CutUpVector(song') /\ StartsOver /\ pc' = "frame"
           /\ UNCHANGED <<frameVars, line, pixels, shown, thrown>>
  <2>1. Len(CutUpVector(song')) \in Nat
    BY <1>4, CutUpFacts
  <2>2. Loaded'
    BY <1>4, <2>1 DEF Loaded, StartsOver
  <2>3. Analysed' /\ Coloured'
    BY <1>4 DEF SongInv, Analysed, Coloured, frameVars
  <2>4. Ended'
    BY <1>1, <1>4 DEF SongInv, Ended
  <2> QED
    BY <2>2, <2>3, <2>4 DEF SongInv
<1> QED
  BY <1>2, <1>3, <1>4 DEF LoadSong

\* The analysis is that of the current piece, and no piece has a size that the
\* transform refuses.
LEMMA DrawsPieceInv == SongInv /\ DrawsPiece => SongInv'
<1> SUFFICES ASSUME SongInv, DrawsPiece PROVE SongInv'
  OBVIOUS
<1> DEFINE size == Size(currentBit)
<1>1. pc = "frame" /\ currentBitIndex < Len(songsBits) /\ song' = song
  BY DEF DrawsPiece
<1>2. /\ song \in Songs /\ size \in PowersOfTwo /\ size \in Nat
      /\ currentBit \in [0 .. size - 1 -> Number]
  BY <1>1, CurrentFacts DEF SongInv
<1>3. Analyses(size)
  BY <1>2, PowersAccepted DEF DrawsPiece
<1>4. /\ pc' = "lines" /\ UNCHANGED <<songsBits, currentBitIndex, thrown>>
      /\ fftOutput' = FFT(currentBit, size)
      /\ bandCount' = [b \in Lines |-> Cardinality(BinsOfBand(size, b))]
      /\ pixels' = Dark /\ shown' = Dark
      /\ \E normalized \in [Lines -> Levels \cup {SilentLevel}] :
            /\ \A b \in Lines :
                  IsSilent(currentBit) \/ bandCount'[b] = 0 => normalized[b] = SilentLevel
            /\ bandPercentages' = [b \in Lines |-> Clamped(normalized[b])]
  BY <1>3 DEF Analyses, ClearAllPixels
<1>5. currentBit' = currentBit
  BY <1>4 DEF currentBit
<1>6. Loaded'
  BY <1>1, <1>4 DEF SongInv, Loaded
<1>7. fftOutput' = DFT(currentBit, size) /\ fftOutput' \in [0 .. size - 1 -> Number]
  <2>1. FFT(currentBit, size) = DFT(currentBit, size)
    BY <1>2, FFTIsDFT
  <2> QED
    BY <1>2, <1>4, <2>1, DFTType
<1>8. Range(fftOutput') \subseteq Number
  BY <1>7 DEF Range
<1>9. Range(bandCount') \subseteq Nat
  <2>1. \A b \in Lines : Cardinality(BinsOfBand(size, b)) \in Nat
    BY <1>2, BandsPartition
  <2> QED
    BY <1>4, <2>1 DEF Range
<1>10. IsSilent(currentBit) => bandPercentages' = [b \in Lines |-> 0]
  BY <1>4, ClampedFacts
<1>11. bandCount' = [b \in Lines |-> Cardinality(BinsOfBand(size, b)')]
  BY <1>1, <1>4, <1>5 DEF BinsOfBand, BinInBand, Size
<1>12. Analysed'
  BY <1>1, <1>4, <1>5, <1>7, <1>8, <1>9, <1>10, <1>11 DEF Analysed
<1>13. Ended' /\ Coloured'
  BY <1>1, <1>4 DEF SongInv, Ended, Coloured, Dark
<1> QED
  BY <1>6, <1>12, <1>13 DEF SongInv

\* Nothing of the song and its analysis changes while the lines are written.
LEMMA SetsLineSongInv == FrameInv /\ SongInv /\ SetsLine => SongInv'
<1> SUFFICES ASSUME FrameInv, SongInv, SetsLine PROVE SongInv'
  OBVIOUS
<1>1. pc = "lines" /\ line \in Lines /\ song' = song
  BY DEF SetsLine
<1> DEFINE amount == AmountPixels(bandPercentages[line])
<1>2. amount \in 0 .. 8
  <2>1. bandPercentages[line] \in 0 .. 100
    BY <1>1 DEF FrameInv, Types
  <2> QED
    BY <2>1, AmountFacts
<1>3. SetPixelsInLine(amount)
  BY <1>2 DEF SetsLine, PixelsPerLine
<1>4. /\ UNCHANGED <<pc, songsBits, currentBitIndex, fftOutput, bandCount, bandPercentages,
                     shown, thrown>>
      /\ pixels' = [p \in Pixel |->
                      IF \E i \in 0 .. amount - 1 : p = PixelOf(line, i) THEN line
                      ELSE pixels[p]]
  BY <1>3 DEF SetPixelsInLine, frameVars
<1>5. Loaded' /\ Ended'
  BY <1>1, <1>4 DEF SongInv, Loaded, Ended
<1>6. Coloured'
  BY <1>1, <1>4 DEF SongInv, Coloured
<1>7. Analysed'
  BY <1>1, <1>4 DEF SongInv, Analysed, currentBit, BinsOfBand, BinInBand
<1> QED
  BY <1>5, <1>6, <1>7 DEF SongInv

\* Every step keeps the invariant of the song.
LEMMA SongNextInv == FrameInv /\ SongInv /\ [Next]_vars => SongInv'
<1> SUFFICES ASSUME FrameInv, SongInv, [Next]_vars PROVE SongInv'
  OBVIOUS
<1>1. CASE LoadSong
  BY <1>1, LoadSongInv
<1>2. CASE DrawsPiece
  BY <1>2, DrawsPieceInv
<1>3. CASE SetsLine
  BY <1>3, SetsLineSongInv
<1>4. CASE ShowPixels
  <2>1. /\ pc = "lines" /\ pc' = "frame" /\ shown' = pixels
        /\ currentBitIndex' = currentBitIndex + 1
        /\ UNCHANGED <<song, songsBits, fftOutput, bandCount, pixels, thrown>>
    BY <1>4 DEF ShowPixels, frameVars
  <2>2. Loaded'
    <3>1. currentBitIndex \in Nat /\ currentBitIndex < Len(songsBits)
      BY <2>1 DEF SongInv, Loaded, Analysed
    <3>2. Len(songsBits) \in Nat
      BY <2>1, CutUpFacts DEF SongInv, Loaded
    <3> QED
      BY <2>1, <3>1, <3>2 DEF SongInv, Loaded
  <2>3. Analysed' /\ Ended' /\ Coloured'
    BY <2>1 DEF SongInv, Analysed, Ended, Coloured
  <2> QED
    BY <2>2, <2>3 DEF SongInv
<1>5. CASE SongEnds
  <2>1. Range(<<>>) = {}
    BY DEF Range
  <2> QED
    BY <1>5, <2>1 DEF SongEnds, SongInv, Loaded, Analysed, Ended, Coloured
<1>6. CASE Leaves
  <2>1. /\ pc \in {"song", "frame"} /\ pc' = "off" /\ pixels' = Dark /\ shown' = Dark
        /\ UNCHANGED <<song, songsBits, currentBitIndex, fftOutput, bandCount, thrown>>
    BY <1>6 DEF Leaves, ClearAllPixels, frameVars
  <2>2. Coloured'
    BY <2>1 DEF Coloured, Dark
  <2> QED
    BY <2>1, <2>2 DEF SongInv, Loaded, Analysed, Ended
<1>7. CASE Finished \/ UNCHANGED vars
  <2>1. UNCHANGED <<pc, song, songsBits, currentBitIndex, fftOutput, bandCount,
                    bandPercentages, pixels, shown, thrown>>
    BY <1>7 DEF Finished, vars
  <2> QED
    BY <2>1 DEF SongInv, Loaded, Analysed, Ended, Coloured, currentBit, BinsOfBand, BinInBand
<1> QED
  BY <1>1, <1>2, <1>3, <1>4, <1>5, <1>6, <1>7 DEF Next

\* Both invariants always hold.
LEMMA SongInvariant == Spec => [](FrameInv /\ SongInv)
BY InitInv, NextInv, SongInit, SongNextInv, PTL DEF Spec

(* Every variable has its type: the index is at most one past the last piece of
   this song, a pixel carries at most the colour of a line (LightWorker.cpp,
   pyInterface.cpp).                                                         *)
THEOREM TypesHold == Spec => []TypeOK
<1>1. FrameInv /\ SongInv => TypeOK
  <2> SUFFICES ASSUME FrameInv, SongInv PROVE TypeOK
    OBVIOUS
  <2>1. \A i \in DOMAIN songsBits : songsBits[i] \in [0 .. Size(songsBits[i]) - 1 -> Number]
    <3>1. CASE songsBits = <<>>
      BY <3>1
    <3>2. CASE song \in Songs /\ SamplesPrDFT(song) > 0 /\ songsBits = CutUpVector(song)
      BY <3>2, CutUpFacts, PieceFacts
    <3> QED
      BY <3>1, <3>2 DEF SongInv, Loaded
  <2> QED
    BY <2>1 DEF FrameInv, Types, SongInv, Loaded, Analysed, Ended, Coloured, TypeOK
<1> QED
  BY <1>1, SongInvariant, PTL

(* Every song of the model is cut as CuttingCovers says, whenever a piece of it
   is drawn; and the transform accepts every piece (AudioFileWrapper.cpp:118-176,
   fft_impl.hpp:34-37).                                                      *)
THEOREM PiecesCover == Spec => []PiecesCoverSong
<1>1. SongInv => PiecesCoverSong
  <2> SUFFICES ASSUME SongInv, pc \in {"frame", "lines"} PROVE PiecesCoverSong
    BY DEF PiecesCoverSong
  <2>1. song \in Songs /\ SamplesPrDFT(song) > 0 /\ songsBits = CutUpVector(song)
    BY DEF SongInv, Loaded
  <2> DEFINE spd == SamplesPrDFT(song)
             n == NumSamples(song)
  <2>2. n \in Nat /\ spd \in Nat \ {0} /\ DOMAIN song.samples = 0 .. n - 1
    BY <2>1, SongFacts
  <2>3. /\ Len(songsBits) * spd <= n /\ n < Len(songsBits) * spd + spd
        /\ \A i \in DOMAIN songsBits :
              /\ Size(songsBits[i]) < 2 * spd
              /\ \A x \in DOMAIN songsBits[i] :
                    songsBits[i][x] = IF x < spd THEN Prepared(song)[(i - 1) * spd + x] ELSE 0
    BY <2>1, <2>2, CuttingCovers
  <2>4. ASSUME NEW i \in DOMAIN songsBits
        PROVE  isPowerOfTwo(Size(songsBits[i]))
    BY <2>1, CutUpFacts, PieceFacts, PowersAccepted
  <2> QED
    BY <2>2, <2>3, <2>4 DEF PiecesCoverSong
<1> QED
  BY <1>1, SongInvariant, PTL

(* The spectrum from which the bands are drawn is the discrete Fourier transform
   of the current piece, in every frame of every song (LightWorker.cpp:108-115,
   fft_impl.hpp:124-244).                                                    *)
THEOREM SpectrumIsRight == Spec => []SpectrumIsDFT
<1>1. SongInv => SpectrumIsDFT
  BY DEF SongInv, Analysed, SpectrumIsDFT
<1> QED
  BY <1>1, SongInvariant, PTL

(* However the edges lie, every bin above 0 Hz and up to the last edge counts in
   exactly one band (LightWorker.cpp:117-132).                               *)
THEOREM BinsCountOnce == Spec => []EveryBinCounts
<1>1. SongInv => EveryBinCounts
  <2> SUFFICES ASSUME SongInv, pc = "lines" PROVE EveryBinCounts
    BY DEF EveryBinCounts
  <2> DEFINE size == Size(currentBit)
             last == BandEdges[Len(BandEdges)] * size
  <2>1. song \in Songs /\ SamplesPrDFT(song) > 0 /\ size \in Nat
    BY CurrentFacts DEF SongInv, Analysed
  <2>2. song.rate \in Nat \ {0}
    <3>1. 0 \div DFTsPrSecond = 0
      BY ShowAssumption
    <3> QED
      BY <2>1, <3>1, SongFacts DEF SamplesPrDFT
  <2> HIDE DEF last, size
  <2>3. {i \in 0 .. size \div 2 - 1 : i * song.rate <= last /\ i * song.rate > 0} =
        {i \in 1 .. size \div 2 - 1 : i * song.rate <= last}
    <3>1. \A i \in 0 .. size \div 2 - 1 : i * song.rate > 0 <=> i \in 1 .. size \div 2 - 1
      BY <2>1, <2>2
    <3>2. 1 .. size \div 2 - 1 \subseteq 0 .. size \div 2 - 1
      BY <2>1
    <3> QED
      BY <3>1, <3>2
  <2>4. SumFunctionOnSet([b \in Lines |-> Cardinality(BinsOfBand(size, b))], Lines) =
        Cardinality({i \in 0 .. size \div 2 - 1 : i * song.rate <= last /\ i * song.rate > 0})
    BY <2>1, BandsPartition DEF last
  <2>5. bandCount = [b \in Lines |-> Cardinality(BinsOfBand(size, b))]
    BY DEF SongInv, Analysed, size
  <2>6. SumFunction(bandCount) = Cardinality({i \in 1 .. size \div 2 - 1 : i * song.rate <= last})
    BY <2>3, <2>4, <2>5 DEF SumFunction
  <2> QED
    BY <2>6 DEF EveryBinCounts, last, size
<1> QED
  BY <1>1, SongInvariant, PTL

(* Once a song is cut, nothing ends the program: the doubling loop ends with a
   size the test of bits accepts, and the clamp keeps any level from asking a
   line for a ninth pixel (AudioFileWrapper.cpp:157-166, fft_impl.hpp:34-37,
   LightWorker.cpp:146-151, pyInterface.cpp:28).                             *)
THEOREM InputTerminates == Spec => []OnlyInputTerminates
<1>1. SongInv => OnlyInputTerminates
  BY DEF SongInv, Ended, OnlyInputTerminates
<1> QED
  BY <1>1, SongInvariant, PTL

(* A song that never moves lights no pixel, whatever level it was recorded with
   (AudioFileWrapper.cpp:38-48).                                             *)
THEOREM ConstantIsDark == Spec => []ConstantSongIsDark
<1>1. SongInv => ConstantSongIsDark
  <2> SUFFICES ASSUME SongInv, pc = "lines",
                      \A i, j \in DOMAIN song.samples : song.samples[i] = song.samples[j]
               PROVE  IsSilent(currentBit)
    BY DEF SongInv, Analysed, ConstantSongIsDark
  <2>1. currentBitIndex < Len(songsBits)
    BY DEF SongInv, Analysed
  <2>2. /\ song \in Songs /\ SamplesPrDFT(song) > 0
        /\ currentBitIndex + 1 \in 1 .. NumSamples(song) \div SamplesPrDFT(song)
        /\ currentBit = Segment(song, currentBitIndex) /\ currentBitIndex \in Nat
    BY <2>1, CurrentFacts DEF SongInv, Loaded
  <2>3. PICK i \in 1 .. NumSamples(song) \div SamplesPrDFT(song) :
           i - 1 = currentBitIndex
    BY <2>2
  <2>4. currentBit = Segment(song, i - 1)
    BY <2>2, <2>3
  <2>5. \A y \in 0 .. NumSamples(song) - 1 : Prepared(song)[y] = 0
    BY <2>2, ConstantIsPreparedToSilence
  <2>6. /\ NumSamples(song) \in Nat /\ SamplesPrDFT(song) \in Nat \ {0}
        /\ DOMAIN song.samples = 0 .. NumSamples(song) - 1
    <3>1. /\ SamplesPrDFT(song) \in Nat /\ NumSamples(song) \in (0 .. 16) \ {1}
          /\ DOMAIN song.samples = 0 .. NumSamples(song) - 1
      BY <2>2, SongFacts
    <3>2. SamplesPrDFT(song) \in Nat \ {0}
      BY <2>2, <3>1
    <3>3. NumSamples(song) \in Nat
      BY <3>1
    <3> QED
      BY <3>1, <3>2, <3>3
  <2>7. \A x \in DOMAIN currentBit : currentBit[x] = 0
    <3> DEFINE spd == SamplesPrDFT(song)
               piece == Segment(song, i - 1)
    <3>1. /\ \A x \in DOMAIN piece :
                piece[x] = IF x < spd THEN Prepared(song)[(i - 1) * spd + x] ELSE 0
          /\ \A x \in DOMAIN piece :
                x < spd => (i - 1) * spd + x \in 0 .. NumSamples(song) - 1
      BY <2>6, SegmentFacts
    <3> HIDE DEF spd, piece
    <3>2. \A x \in DOMAIN piece : piece[x] = 0
      BY <2>5, <3>1
    <3> QED
      BY <2>4, <3>2 DEF piece
  <2> QED
    BY <2>7 DEF IsSilent
<1> QED
  BY <1>1, SongInvariant, PTL
=============================================================================
