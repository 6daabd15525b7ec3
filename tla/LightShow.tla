----------------------------- MODULE LightShow -----------------------------
(* What the light thread makes of a song: the samples are freed of their mean,
   windowed and cut into pieces of a thirtieth of a second
   (client/src/AudioFileWrapper.cpp); each piece is transformed, its spectrum
   sorted into bands (LightWorker.cpp:108-155) and shown on the LED matrix
   (pyInterface.cpp, py/wrapper.py).  When frames are drawn, paused or dropped
   is the matter of Playback.

   Samples are numbers of SimpleFft.  How loud a band is, is left open, except
   that silence is as quiet as can be.                                       *)
EXTENDS SimpleFft, Sequences, Functions

CONSTANTS
    Songs,          \* records of a sample rate and the samples, from place 0
    DFTsPrSecond,   \* pieces per second: 30 in the code
    BandEdges,      \* bandWidths: the edges of the bands, one more than bands
    Levels          \* normalized, in hundredths: how loud a band may be

Lines == 1 .. Len(BandEdges) - 1
PixelsPerLine == 8
Pixel == 0 .. PixelsPerLine * (Len(BandEdges) - 1) - 1

(* A song of one sample would be divided by zero in the window.  Songs have
   at most Order samples, so that the mean exists among the numbers.         *)
ASSUME SongsAssumption ==
    \A s \in Songs : /\ s.rate \in Nat
                     /\ \E n \in (0 .. Order) \ {1} : s.samples \in [0 .. n - 1 -> Number]
ASSUME ShowAssumption ==
    /\ DFTsPrSecond \in Nat \ {0}
    /\ BandEdges \in Seq(Nat) /\ Len(BandEdges) > 1 /\ BandEdges[1] = 0
    /\ \A b \in Lines : BandEdges[b] < BandEdges[b + 1]
    /\ Levels \subseteq Int

VARIABLES
    pc,                \* "song", "frame", "lines", "off" or "terminated"
    song,              \* the song being shown
    songsBits,         \* its pieces
    currentBitIndex,   \* the next piece, from 0
    fftOutput,         \* the transform of the piece being drawn
    bandCount,         \* bins in each band
    bandPercentages,
    line,              \* the next line to be written by setLines
    pixels,            \* the buffer: 0 is dark, else the colour of a line
    shown,             \* what the matrix shows
    thrown             \* the exception that ended the program

frameVars == <<fftOutput, bandCount, bandPercentages>>
vars == <<pc, song, songsBits, currentBitIndex, fftOutput, bandCount,
          bandPercentages, line, pixels, shown, thrown>>

Dark == [p \in Pixel |-> 0]
Silence == [rate |-> 0, samples |-> <<>>]

---------------------------------------------------------------------------
\* getAudioFileObjectFromPath

NumSamples(s) == Cardinality(DOMAIN s.samples)

Inverse17(n) == CHOOSE m \in Number : (n * m) % Modulus = 1

\* The sum over all samples, divided by their number.
Mean(s) ==
    (SumFunction(s.samples) * Inverse17(NumSamples(s))) % Modulus

\* The Hann window is zero at both ends; in between only that it is not counts.
Window(i, n) == IF i = 0 \/ i = n - 1 THEN 0 ELSE 1

PreparedWithMean(s) ==   \* mutant: the mean is left in
    [i \in DOMAIN s.samples |-> s.samples[i] * Window(i, NumSamples(s))]
Prepared(s) ==
    [i \in DOMAIN s.samples |->
        ((s.samples[i] - Mean(s)) * Window(i, NumSamples(s))) % Modulus]

TwoTo[k \in Nat] == IF k = 0 THEN 1 ELSE 2 * TwoTo[k - 1]

\* std::pow(2, std::ceil(std::log2(size))); the logarithm of 0 is minus infinity.
SongPaddedSize(size) ==
    IF size = 0 THEN 0 ELSE TwoTo[Min({k \in 0 .. size : TwoTo[k] >= size})]

PaddedTo(vector, size) ==
    [i \in 0 .. size - 1 |-> IF i \in DOMAIN vector THEN vector[i] ELSE 0]

FFTReadyVector(s) == PaddedTo(Prepared(s), SongPaddedSize(NumSamples(s)))

\* cutupVector
SamplesPrDFT(s) == s.rate \div DFTsPrSecond

\* The loop that doubles paddedSize while it is below currSize: its value after
\* each turn.  It ends after fewer than currSize turns.
PaddedSize(currSize) ==
    LET paddedSize[turn \in 0 .. currSize] ==
            IF turn = 0 THEN 1
            ELSE LET before == paddedSize[turn - 1]
                 IN  IF before < currSize THEN 2 * before ELSE before
    IN  paddedSize[currSize]

Segment(s, i) ==
    LET slice == [x \in 0 .. SamplesPrDFT(s) - 1 |->
                     FFTReadyVector(s)[i * SamplesPrDFT(s) + x]]
    IN  PaddedTo(slice, PaddedSize(SamplesPrDFT(s)))

CutUpStopsEarly(s) ==   \* mutant: the loop ends one piece early
    [i \in 1 .. NumSamples(s) \div SamplesPrDFT(s) - 1 |-> Segment(s, i - 1)]
CutUpVector(s) ==
    [i \in 1 .. NumSamples(s) \div SamplesPrDFT(s) |-> Segment(s, i - 1)]

---------------------------------------------------------------------------
Init ==
    /\ pc = "song"
    /\ song = Silence /\ songsBits = <<>> /\ currentBitIndex = 0
    /\ fftOutput = <<>> /\ bandCount = <<>>
    /\ bandPercentages = [b \in Lines |-> 0]
    /\ line = 1
    /\ pixels = Dark /\ shown = Dark     \* initLeds, clearPixels
    /\ thrown = "none"

\* Nobody catches an exception of the light thread: the program ends.
Terminates(what) ==
    /\ thrown' = what
    /\ pc' = "terminated"
    /\ UNCHANGED <<songsBits, currentBitIndex, frameVars, line, pixels, shown>>

CountsOn == UNCHANGED currentBitIndex   \* mutant: the index is not reset
StartsOver == currentBitIndex' = 0

LoadSong ==
    /\ pc = "song"
    /\ \/ Terminates("load") /\ UNCHANGED song
       \/ /\ song' \in Songs
          /\ \/ SamplesPrDFT(song') <= 0 /\ Terminates("rate")
             \/ /\ SamplesPrDFT(song') > 0
                /\ songsBits' = CutUpVector(song')
                /\ StartsOver
                /\ pc' = "frame"
                /\ UNCHANGED <<frameVars, line, pixels, shown, thrown>>

currentBit == songsBits[currentBitIndex + 1]
Size(vector) == Cardinality(DOMAIN vector)
IsSilent(vector) == \A i \in DOMAIN vector : vector[i] = 0

\* The frequency of bin i is i times rate over size; of the bins, the first
\* half is used.
BinInOpenBand(i, size, b) ==   \* mutant: the upper edge belongs to no band
    /\ i * song.rate < BandEdges[b + 1] * size
    /\ i * song.rate > BandEdges[b] * size
BinInBand(i, size, b) ==
    /\ i * song.rate <= BandEdges[b + 1] * size
    /\ i * song.rate > BandEdges[b] * size

BinsOfBand(size, b) == {i \in 0 .. size \div 2 - 1 : BinInBand(i, size, b)}

\* 20 * log10(1e-6) is -120 dB, and (-120 + 60) / 60 is -1.
SilentLevel == -100

ClampedBelow(level) == IF level < 0 THEN 0 ELSE level   \* mutant: no upper limit
Clamped(level) == IF level < 0 THEN 0 ELSE IF level > 100 THEN 100 ELSE level

ClearsNothing == UNCHANGED <<pixels, shown>>   \* mutant: pixels.fill is missing
ClearAllPixels == pixels' = Dark /\ shown' = Dark

\* The analysis of a piece, up to the clearing with which setLines begins.
Analyses(size) ==
    /\ fftOutput' = FFT(currentBit, size)
    /\ bandCount' = [b \in Lines |-> Cardinality(BinsOfBand(size, b))]
    /\ \E normalized \in [Lines -> Levels \cup {SilentLevel}] :
          /\ \A b \in Lines :
                IsSilent(currentBit) \/ bandCount'[b] = 0 => normalized[b] = SilentLevel
          /\ bandPercentages' = [b \in Lines |-> Clamped(normalized[b])]
    /\ ClearAllPixels
    /\ line' = 1
    /\ pc' = "lines"
    /\ UNCHANGED <<songsBits, currentBitIndex, thrown>>

\* calculateFFT throws if the transform refuses the size.
DrawsPiece ==
    /\ pc = "frame" /\ currentBitIndex < Len(songsBits)
    /\ LET size == Size(currentBit)
       IN  IF checkNumElements(size) THEN Analyses(size) ELSE Terminates("fft")
    /\ UNCHANGED song

\* std::round(percent / 12.5)
AmountPixels(percent) == (4 * percent + 25) \div 50

\* line1 to line16: eight pixels each, one line after the other.
PixelOf(l, i) == (l - 1) * PixelsPerLine + i

SetPixelsInLine(amount) ==
    /\ pixels' = [p \in Pixel |->
                    IF \E i \in 0 .. amount - 1 : p = PixelOf(line, i) THEN line
                    ELSE pixels[p]]
    /\ line' = line + 1
    /\ UNCHANGED <<pc, songsBits, currentBitIndex, frameVars, shown, thrown>>

\* A line has no ninth pixel: IndexError in Python, an exception in C++.
SetsLine ==
    /\ pc = "lines" /\ line \in Lines
    /\ LET amount == AmountPixels(bandPercentages[line])
       IN  IF amount <= PixelsPerLine THEN SetPixelsInLine(amount) ELSE Terminates("pixel")
    /\ UNCHANGED song

ShowPixels ==
    /\ pc = "lines" /\ line \notin Lines
    /\ shown' = pixels
    /\ currentBitIndex' = currentBitIndex + 1
    /\ pc' = "frame"
    /\ UNCHANGED <<song, songsBits, frameVars, line, pixels, thrown>>

\* The song is over or was skipped; its last frame stays on the matrix.
SongEnds ==
    /\ pc = "frame"
    /\ song' = Silence /\ songsBits' = <<>>
    /\ fftOutput' = <<>> /\ bandCount' = <<>>
    /\ pc' = "song"
    /\ UNCHANGED <<currentBitIndex, bandPercentages, line, pixels, shown, thrown>>

\* The destructor of PythonLightInterface.
Leaves ==
    /\ pc \in {"song", "frame"}
    /\ ClearAllPixels
    /\ pc' = "off"
    /\ UNCHANGED <<song, songsBits, currentBitIndex, frameVars, line, thrown>>

Finished == pc \in {"off", "terminated"} /\ UNCHANGED vars

Next ==
    LoadSong \/ DrawsPiece \/ SetsLine \/ ShowPixels \/ SongEnds \/ Leaves \/ Finished

Spec == Init /\ [][Next]_vars

---------------------------------------------------------------------------
(* Every variable has its type; in particular a pixel carries at most the
   colour of a line, and the index of the next piece is at most one past the
   last of this song, never of the song before.                              *)
TypeOK ==
    /\ pc \in {"song", "frame", "lines", "off", "terminated"}
    /\ song \in Songs \cup {Silence}
    /\ \A i \in DOMAIN songsBits : songsBits[i] \in [0 .. Size(songsBits[i]) - 1 -> Number]
    /\ currentBitIndex \in Nat
    /\ pc \in {"frame", "lines"} => currentBitIndex <= Len(songsBits)
    /\ Range(fftOutput) \subseteq Number
    /\ Range(bandCount) \subseteq Nat
    /\ bandPercentages \in [Lines -> 0 .. 100]
    /\ line \in Lines \cup {Len(BandEdges)}
    /\ pixels \in [Pixel -> Lines \cup {0}] /\ shown \in [Pixel -> Lines \cup {0}]
    /\ thrown \in {"none", "load", "rate", "fft", "pixel"}

(* The pieces follow each other without gap or overlap, padded with silence to
   a power of two less than twice as long, and what is left of the song is
   shorter than a piece (cutupVector, AudioFileWrapper.cpp:118-176).         *)
PiecesCoverSong ==
    pc \in {"frame", "lines"} =>
        LET spd == SamplesPrDFT(song)
            covered == Len(songsBits) * spd
        IN  /\ covered <= NumSamples(song) /\ NumSamples(song) < covered + spd
            /\ \A i \in DOMAIN songsBits :
                  /\ isPowerOfTwo(Size(songsBits[i])) /\ Size(songsBits[i]) < 2 * spd
                  /\ \A x \in DOMAIN songsBits[i] :
                        songsBits[i][x] =
                            IF x < spd THEN Prepared(song)[(i - 1) * spd + x] ELSE 0

(* The transform in place, by exchanges of bit-reversed indices, butterflies
   and factors from a recurrence, is the discrete Fourier transform of the
   piece (rearrangeData, makeTransform, fft_impl.hpp:124-244).               *)
SpectrumIsDFT ==
    pc = "lines" => fftOutput = DFT(currentBit, Size(currentBit))

(* Every bin above 0 Hz and up to the last edge counts in exactly one band, also
   one that lies on an edge (LightWorker.cpp:117-132).                       *)
EveryBinCounts ==
    pc = "lines" =>
        SumFunction(bandCount) =
            Cardinality({i \in 1 .. Size(currentBit) \div 2 - 1 :
                            i * song.rate <= BandEdges[Len(BandEdges)] * Size(currentBit)})

(* Once a song is cut, nothing ends the program: the size to which the doubling
   loop pads a piece is one the test of bits in the transform accepts
   (AudioFileWrapper.cpp:89, 157-166, fft_impl.hpp:34-37), and however loud a
   band is, its line is not asked for a ninth pixel (LightWorker.cpp:146-151,
   pyInterface.cpp:28, wrapper.py:99).                                       *)
OnlyInputTerminates == thrown \in {"none", "load", "rate"}

(* A pixel is lit if its middle is below the height of its bar. *)
Bars(percentages) ==
    [p \in Pixel |->
        LET l == p \div PixelsPerLine + 1
            i == p % PixelsPerLine
        IN  IF 25 * (2 * i + 1) <= 4 * percentages[l] THEN l ELSE 0]

(* The matrix shows nothing or one whole frame: every line as high as its band
   and in its own colour, no pixel left over from a frame or a song before, and
   none when the program has left regularly (pyInterface.cpp:22-38,
   wrapper.py:69-146).                                                       *)
WholeFrames ==
    /\ shown \in {Dark, Bars(bandPercentages)}
    /\ pc = "off" => shown = Dark

(* A song that never moves, whatever constant level it was recorded with, lights
   no pixel: the level is taken away before the song is cut, so that not even
   the padding of a piece makes a step of it (AudioFileWrapper.cpp:38-48).   *)
ConstantSongIsDark ==
    pc = "lines" /\ (\A i, j \in DOMAIN song.samples : song.samples[i] = song.samples[j])
        => bandPercentages = [b \in Lines |-> 0]
=============================================================================
