# Verification of the music-light system

TLA+ models of the jukebox in this repository: a server (`server/`) that keeps a playlist and
hands out song files over HTTP, and a client on a Raspberry Pi (`client/`) that downloads
songs, plays them, shows their spectrum on an LED matrix and obeys six buttons. TLC checks
the models on small instances; TLAPS proves for every instance the invariants and action
properties of those checks, that the song files implement an abstract jukebox, and that the
transform of simple_fft is the Fourier transform.

## 1. Inventory

| Component | Code | State | Operations |
|---|---|---|---|
| PlaylistServer | `server/src/main.cpp`, `file_handler_t.cpp` | order of the songs, cursor `playlist_count`, `shuffled` | `/get_current_song`, `/get_next_song/:id`, `/get_previous_song/:id`, `/shuffle_playlist`, `/` |
| Error relay | `file_handler_t.cpp:69-113`, `main.cpp:206,220` | a registry of websockets in every copy of `FileHandler` | `/chat`, `/error/:error` |
| ServerComs | `client/src/server_coms.cpp` | three song files, `current_song`, one `CURL*` | `clientStartup`, `getNext`, `getPrevious`, `shufflePlaylist`, `writeError` |
| Client threads | `client/src/main.cpp`, `StatusVars.cpp`, `LightWorker.cpp`, `AudioWorker.cpp` | six flags, `currentPath`, two mutexes, three condition variables in use | the workers, `pause`, `resume`, `signalHandler` |
| ButtonWorker | `client/src/ButtonWorker.cpp`, `ButtonWorker.h` | last levels of six lines, last press, volume | a poll every 0.1 s |
| Audio analysis | `client/src/AudioFileWrapper.cpp`, `LightWorker.cpp:108-155` | the pieces of a song | decode, window, cut up, transform, bands |
| simple_fft | `client/include/simple_fft/` | none | transforms of one to three dimensions; the client calls one |
| LED matrix | `client/src/pyInterface.cpp`, `py/wrapper.py` | 128 pixels, in a buffer and as shown | `setLines`, `clearPixels` |
| UI LEDs | `client/src/UI_led.cpp` | two LEDs | on, off, toggle, blink; unused by the client |
| PC client | `PC_client/pc_client.html` | none | prints what the websocket delivers |

How they interact. The button, light and audio threads share the flags of `StatusVars` and
wake each other through condition variables; the SIGINT handler runs in the middle of any of
them. The light thread calls `getNext` or `getPrevious` (a blocking HTTP request) with
`currentPathMutex` held, decodes the file, announces it to the audio thread
(`lightWorkerReady`), and draws; the audio thread opens the same file under the same mutex
and plays it. The button thread calls `pause`, `resume` and, over the network,
`shufflePlaylist`. The server runs all its handlers on one thread.

What is hard. Waits whose notifier holds no mutex; flags set in one order and read in
another; one request flag consumed by two threads; a cursor on the server and an index on
the client that only move together as long as no request fails; a shuffle in the middle of a
download; restarts; signed positions reduced modulo an unsigned size.

What makes the parts correct. *Server*: next and previous are inverse to each other and stay on
the playlist. *ServerComs*: the three files are the neighbourhood of the song being played, a
download never destroys the file being played, and after an upset (shuffle, failed request,
restart) the files become right again. *Threads*: an announced song is played, a press is served
once and in the direction of the last, pause and resume act on music and lights alike, a signal
ends the program in silence. *Error relay*: an error reaches every PC connected. *ButtonWorker*:
a press is answered once, by whichever poll, however busy the other lines are; the volume stays
in range. *Audio analysis*: the pieces cover the song, the transform is the Fourier transform,
every bin counts once. *LED matrix*: only whole frames are shown, and nothing when the program
has left. `PROJECT.json` lists each hazard at its line with the properties that watch it.

## 2. Modules

| Module | What it models |
|---|---|
| `PlaylistServer` | order, cursor and handlers of the server; a handler is one step, because the server has one thread |
| `SongCache` | extends it by `ServerComs`: downloads in four stages (begin, serve, receive or fail), with shuffles, faults and restarts in between |
| `Jukebox` | the abstract specification: an ordered list, a place on it, Skip, Rewind and Shuffle, and the song heard |
| `JukeboxRefinement` | the mapping under which `SongCache` implements `Jukebox` |
| `Playback` | the threads and the signal handler |
| `Buttons` | the polls of the button thread: lines, detectors, volume |
| `SimpleFft` | the transform, as functions |
| `LightShow` | extends it by what is done with a song from its samples to the pixels |
| `ErrorRelay` | the websockets of the PCs and the errors posted |
| `MCSongCache`, `MCPlayback`, `MCButtons`, `MCLightShow` | the modules TLC is run on |
| `SongCacheProofs`, `JukeboxProofs`, `PlaybackProofs`, `ButtonsProofs`, `LightShowProofs`, `SimpleFftProofs`, `ErrorRelayProofs` | the theorems |
| `Arithmetic` | what their proofs share: induction, recursion, remainders, sums |

### PlaylistServer and SongCache

A song is its index in the directory listing. `Backward` is `(playlist_count - d) %
songs.size()`: `size()` is unsigned, so a negative difference first becomes `2^SizeTBits + (i
- d)`. TLC cannot hold that number, so the module takes `SizeTResidue`, its remainder modulo
`NumSongs`, as a constant, and an assumption checks it against `SizeTBits` by repeated
doubling. The correction `if (tmp < 0)` never applies and has no counterpart in the model.
`Misses` says when the result is not `d` places back, as it may be when `NumSongs` does not
divide `2^SizeTBits`.

`current_song` and `slot` are the member and the files of `ServerComs`; `request`, `stage`,
`body` and `moved` are the call in progress. `Begin` opens, and so empties, the file;
`Serve` is the server's handler; `Receive`, `ResponseCut` and `RequestLost` are the ends of
`curl_easy_perform`, followed by what the caller does next (`Conclude`), which is to go on
even when the download failed. `getCurrentSong`, `getNextSong` and `getPreviousSong` are the
same code but for the URL, so the three stand behind the same actions. The status of an
answer is never looked at: `Receive` saves an error page as a song. `late` is a request the
client gave up on that may still arrive. `ShufflePlaylist` may happen at any stage, being on
another thread.

`fresh`, `run`, `dir` and `valid` are history: which files arrived whole since the last
upset, and how many moves in one direction succeeded since then. An *upset* is what breaks
the correspondence of client and server by intention or by accident: a shuffle, a move only
one side made, a restart, and a Rewind after which the cursor is not one place back because
the subtraction misses. If only the song that was sent is not two places back, its file does not
count as filled. So no property needs the number of songs to divide the range of size_t, and
`HealsAfterMoves` says how such a Rewind is made up for.

### Jukebox

What a listener is promised, with no file and no request in it: `place` on `order`, moved by Skip
and Rewind, and the song `heard` there. The listener may count on a song only while it is `sure`.
`Forget` is the moment in which a song is about to be replaced (and, once started, is never the
one heard), `Move` keeps what was sure as seen from the new place, `Shuffle` and the two faults
(`Disorder`, on the server's side, and `Astray`, on the client's) leave nothing sure. A Rewind
whose cursor misses is a `Disorder`; where the number of songs divides the range of size_t there
is none without a fault. `JukeboxRefinement` maps `place` to the position the client is on,
`heard` to the file of the current slot and `sure` to the offsets whose slot was filled whole
since the last upset. The stages of a download between its beginning and its end are stuttering
steps.

### Playback

A program counter per thread (`mpc`, `bpc`, `lpc`, `apc`) and for the handler (`spc`). A wait
on a condition variable is three places: evaluate the predicate, `willSleep`, `asleep`. A
notification moves only a thread that is `asleep`, which is what a notification does, and
leaves one in `willSleep` alone. The audio thread holds `mtxLightReadyPlayAudioNow` up to the
sleep; `mtxPlayLight` and main's mutex are taken by their waiters only, so they are not
variables. `cvTimeForNewSong` is waited on with a predicate that is always true: nobody ever
sleeps on it and its notifications do nothing.

The flags that one condition reads, or two conditions in a row, are read in one step; every
write is a step of its own. A song is a number of pieces; decoding may throw and thereby end
the process. The handler is not entered again while it runs, as `signal` blocks the signal
in its own handler. SIGINT and the button thread's exit, joins and the end of `main` are
there; destructors are not.

A poll (`ButtonPolls`) tests for the exit and picks a button; what the button does begins with a
step of its own, so that a signal may come in between. The calls over the network, `fetch` of the
light thread and `shuffle` of the button thread, end when the server pleases: no request of
`server_coms.cpp` has a timeout, and a thread in such a call sees no signal.

`press` and `reason` are history: the last press that is not acted upon yet, and why the light
thread left its last song. `Served` is the press a choice answers: the one in `press`, even if it
came after the press that made the light thread leave the song, and otherwise `reason`. They are
what lets `PressServedInDirection` speak of a press and of its answer, two fetches and three
threads later. It excepts a choice between the two writes of a press and nothing else; a Skip that
is followed by a Rewind before the choice goes back one song, and the property says so.

### Buttons

A line is its place in the chain of tests of `readGPIOs`. `ReadMusicButtons` is one poll: all
lines are read by one ioctl, the first falling edge wins, the detectors up to it are updated
and those behind it are not, and the switch acts on `lastPressedButton`. A poll whose ioctl
fails (`ReadMusicButtonsBlind`) acts on the press left over. What Play, Skip, Rewind and
Shuffle then do is in `Playback` and `SongCache`.

A press can be lost for good: if the button was let go only during polls that stopped at an
earlier line, its detector still holds the level of the press before, and there is no edge
however long the button is held. What the code does guarantee is `HeldPressIsServed`. The history
`waited` counts the polls since a line last changed, up to `Weight`, and `claim` says what a
held button may expect: the press is `due` if the line was up for `Weight` polls before it,
`doubtful` if for fewer, and `answered` once it has been served. A press that is due is served
within the next `Weight` polls. `OneActionPerPress` holds of doubtful presses too.

The volume is a float stepped by 0.1. What matters of it is which tenth it is near and on
which side of it: a record of `tenths` and `rest`, where an addition may be rounded any way.
`Clamped` and its comparisons look at both. The two assignments of a volume press to the
shared `StatusVars::volume` are two steps (`bpc = "clamp"` in between), so that `SongStarts`,
on the audio thread, may read the value in between. Within a poll the ioctl and the switch
are one step: nothing else writes what they read.

`streak` is history too: how many volume presses came in one direction.

### SimpleFft and LightShow

The transform does not depend on its numbers being complex floats, only on its factors being
powers of a root of unity. `SimpleFft` therefore computes modulo 17, where 3 has order 16 and
takes the place of `exp(-2 pi i / 16)`: every computation is exact and `SpectrumIsDFT` can ask
for equality with the definition of the Fourier transform, for sizes 1 to 16. What is kept of
the code is its control: the reversed counter and the exchanges of `rearrangeData`, the
passes, pairs and the factor recurrence of `makeTransform`. What is lost is its precision.

`LightShow` starts from decoded samples. The Hann window is zero at both ends of a song and is
taken as one in between; a song of one sample is left out, since the window would divide by zero.
The frequency of a bin is compared to `bandWidths` by multiplication instead of division; the
edges are any increasing numbers from 0 (`LightWorker.h:17`). How many percent a band reaches is
left open, below the range as well as above it, except that a silent piece and a band without a
bin are at the `SilentLevel`; `Clamped` makes a percentage of it. `PaddedSize` is the loop that
doubles, turn by turn, and `isPowerOfTwo` the test of bits, so that it is a result and not a
definition that the transform accepts every piece. The buffer, `line` by line, and what is shown
are apart, as in the Python driver; a colour is the number of its line. An exception of any step
ends the program (`Terminates`). In the code the light thread is the only one to do any of this,
and pausing or skipping between two frames is in `Playback`; here `SongEnds` and `Leaves` may
come after any frame.

### ErrorRelay

`std::bind` stores a copy of the `FileHandler` in the handlers of `/`, `/chat` and `/error`, so
`m_registry` is a function of which of the four works. `due` is history: what was posted while
a socket was open. Nothing in the client posts; that somebody does is supposed.

## 3. Runs

| Run | Instance | Result |
|---|---|---|
| `song_cache` | 5 songs, 12 orders, faults and restarts | `TypeOK`, `WindowTracksPlaylist`, `HealsAfterMoves`, `DownloadSparesPlayed` hold, and `PlaysTheOrder`: the files implement the jukebox (829 646 states) |
| `playback_safety` | all buttons, songs of 0 and 2 pieces, repeated signals | six invariants and `PressServedInDirection` hold (8 300 583 states) |
| `playback_liveness` | Play and Shuffle, songs of 2 pieces, repeated signals | `ReadySongIsTaken`, `InsistingEndsProgram` and `InsistingWakesLights` hold (111 033 states) |
| `buttons` | Shuffle and the two volume buttons, three steps of volume, failing reads | a press that is due is served (`HeldPressIsServed`), none acts twice (`OneActionPerPress`); volume and engine (`VolumeReachesEnds`, `TypeOK`) (2 838 458 states) |
| `light_show` | every song of up to 6 samples of two levels, and an impulse at every place of 16 samples, at nine rates; three bands; four levels, one above the range | `PiecesCoverSong`, `SpectrumIsDFT`, `EveryBinCounts`, `OnlyInputTerminates`, `WholeFrames`, `ConstantSongIsDark`, `TypeOK` hold (306 980 states) |

Runs that end in a counterexample, each of one statement of a comment or a diagram:

| Run | Statement | What the code does |
|---|---|---|
| `previous_wraps` | `main.cpp:143,168` (server): the previous song | with the 11 songs of `server/music` the song before the first is number 4, not 10 |
| `signal_before_first_play` | `main.cpp:22` (client) | a signal before the first press leaves main asleep for good |
| `skip_while_paused` | `LightWorker.cpp:77` | a skip does not wake the light thread out of a pause |
| `one_press_two_songs` | `SD/3_control_audio_alt.puml:51-58` | one press may be served twice |
| `song_unheard` | `sd_overordnet_v2.puml:27-34` | lights of one song, sound of another |
| `error_not_relayed` | `SD/3_control_audio.puml:51-53` | an error posted reaches no page |
| `volume_up_quieter` | `SD/4_change_volume.puml:19-20` | the first press on "Volume up" makes the song quieter |

More behaviours of the same kind are reachable in the models and not stated as properties. In
`SongCache`, a shuffle leaves the old neighbours on the client (`SD/5_shuffle.puml:23-26`). In
`Playback`, after a rewind songs that end by themselves follow each other backward
(`SD/3_control_audio.puml:60-61`); a resume may fall between the evaluation and the sleep of the
light thread, so that music plays without lights (against `stm_play_pause.puml:7,16`) until the
user pauses and resumes again; the first press may be lost in the
same way (`ButtonWorker.cpp:82`); a rewind may be served with the old direction if the light thread
chooses after the request is raised and before the direction is written
(`ButtonWorker.cpp:108`), the one case `PressServedInDirection` excepts; and the first song
played is the second of the window, because the light thread moves before it plays
(`LightWorker.cpp:26`, against "Play current song" in `SD/3_control_audio.puml:24`). In
`Buttons`, a press is acted upon again at every poll that cannot read
(`ButtonWorker.cpp:161`), the case `OneActionPerPress` excepts; a press after a short release may
be lost (`ButtonWorker.cpp:169-183`), the one `HeldPressIsServed` calls doubtful; and a song that
starts between the two assignments of a volume press plays at a volume one step out of range
(`ButtonWorker.cpp:124`).

Bounds, and why they are enough.

- `NumSongs = 5`: the window (before, at, after) does not meet itself, a request reaches beyond
  it, and `2^64` is 1 modulo 5, as it is 5 modulo the 11 songs of `server/music`: from the first
  place both the song sent and the cursor miss, from the second only the song. The theorems cover
  every number, also one and two.
- `ShuffledOrders <- SameFirst`: the twelve orders that keep the first song, one of each pair that
  differ in direction only, to keep the run short; the theorems cover every set of orders.
  `previous_wraps` takes one order of eleven songs.
- `FullRun = 3` caps `run`: there are three files, and no property asks for a longer run.
- One `late` request at a time: a second one that is lost replaces it or is dropped; either
  may happen. Every late request is an upset, so more of them add nothing to what holds.
- `MaxLate = 2` caps `lateFrames`: one more than the property allows.
- `SegmentCounts`: none (the song that ends at once) and two. With fewer than two pieces the
  light thread never waits for `cvPlay`: its first pass skips the wait, and after one frame the
  song is over.
- `Buttons = {"play", "shuffle"}` in `playback_liveness`, to keep the run short: Play is what
  makes the light thread sleep, and Shuffle what keeps the button thread in a call.
- `Lines`: one line in front of the volume buttons. A line behind `k` others can be passed by
  `2^k - 1` times; the last line shows this up to three, and the theorem up to six lines.
  `VolumeSteps = 3` of the code's ten: start in the middle, both ends, one step between.
- `LightShow`: the rates give pieces of 1, 2, 3, 5, 8, 9 and 16 samples, so of every kind of
  padding, a rate of 29 no piece at all; the edges of the three bands lie on bins and between
  them; `Levels` has both sides of the rounding from no pixel to one, the last below
  eight pixels, and one that without the clamp would ask for a ninth.

Deadlock is checked in every run; `Finished` is the stuttering of a process that is over.

Fairness. `Fairness` says that a thread that can run does run (weak fairness on each thread),
except that nobody need press a button and no call over the network need return, that a sound
whose device runs ends, and that the audio thread, waiting for `mtxLightReadyPlayAudioNow`, gets
it if it is free again and again (strong fairness on that lock alone). The last is what the code
provides in practice: the light thread holds that mutex for one assignment and then downloads a
song before it wants it again. What the code does not guarantee, a property that needs it
supposes in its own statement. That is `CallsReturn`: curl is given no timeout, so it takes a
server that answers or a connection that breaks for a call to end; without it
`InsistingEndsProgram` is false, as main then joins a thread that never comes back. It is
`Insisting`: the user repeats Ctrl-C; without it `InsistingEndsProgram` is false too, since the
handler holds no mutex and any one signal may fall between a predicate and a sleep. And it is the
user who goes on pressing Play/Pause in `InsistingWakesLights`. `InsistentSpec` adds the first
two for the run `signal_before_first_play`, where they do not help. `ReadySongIsTaken` supposes
none of them. Spurious wake-ups are possible and never relied on.

Every property of a passing run has a mutant: a plausible mistake in the code, defined next
to what it replaces, under which TLC finds the property violated (`PROJECT.json`, "mutants").

## 4. Theorems

`PlaybackProofs`, for all `Buttons`, `SegmentCounts` and `RepeatedSignals`:
`TypeCorrectness`, `HandOver`, `PathExclusion`, `PathBeforeLoad`, `SilenceAtExit`,
`FramesStop`, each `Spec => []P` for an invariant of `playback_safety`. None is inductive by
itself. `IInv` ties the holder of each mutex to the places of its critical section, adds that
nothing is ready while the audio thread is about to sleep (it holds the mutex there), that an
announcement implies a path, that sound implies an audio thread that polls, and that a piece
is left for a frame being drawn. The proof that a step keeps `IInv` goes through the threads,
one conjunct group per lemma. `DirectionKept` proves the action property
`PressServedInDirection` from a second invariant, `Direction`: while a press is not acted upon
`isSkip` is its direction, unless that is just being written, and afterwards `isSkip` agrees
with `reason` until the next press. A second press that comes before the choice only moves the
claim from `reason` to `press`.

`SongCacheProofs`, for every `NumSongs >= 1`, `SizeTBits`, `ShuffledOrders` and
`FaultsPossible`: `TypeCorrectness` (in particular `Backward` never leaves the playlist),
`Window`, `Healing` and `PlayedFileIsSpared`. `IInv` consists of

- `CallShape`: which request may be under way at which stage, and that the file it writes is
  not claimed to be fresh;
- `Delivery`: an answer that is not outdated carries the song its file will be meant for,
  seen from where the cursor is after the move;
- `WindowTracksPlaylist` itself;
- `RunShape`: a run of one move has refilled the file ahead, of two also the current one, of
  three all.

The arithmetic is in the lemmas on positions (`Neighbours` to `WhatIsNotMissed`): one place back
undoes one place on, and `Forward` and `Backward` are those steps, the latter unless it misses.
Where two places back is not missed, neither is one, so an answer that counts never comes with a
cursor that has gone astray. `ConcludeWindow` is the heart: the end of a call turns the ring of
files by one and the window by one. `PlayedFileIsSpared` is an action property proved from the
same invariant.

What `SizeTResidue` stands for is proved as well, in "The range of size_t": `ResidueIs`, it is
the remainder of `2^SizeTBits`, and `BackwardIsUnsigned`, what `Backward` computes from it is
the unsigned expression of the code, for every width. `PreviousIsOnePlaceBack`: the previous
song is one place back from everywhere exactly if the residue is 0, so exactly if the number of
songs divides the range of size_t; powers of two do, and `OddNumbersWrap`: an odd number, such
as the 11 songs in `server/music`, never does. `PreviousIsRight` proves, with a residue of 0 and
without faults, the property that `previous_wraps` refutes.

`JukeboxProofs`, for every `NumSongs`: `Refinement` is `Spec => PlaysTheOrder`. Every step of
`SongCache` maps to a step of `Jukebox` or a stutter. What is added to the invariant above is
only `NothingLost`: without faults no request is late and every answer has moved the server. A
`Serve` whose cursor misses is a `Disorder` (`MissingDisorders`), every other one a stutter
(`ServingStutters`); as a residue of 0 excludes the first, `Jukebox` has no `Disorder` then
without faults. `SureSongIsHeard` puts the refinement to use: the
promise that a song one may count on is the one at the listener's place (`SureIsHeard`) is proved
of `Jukebox` alone and carried over to the files.

`ButtonsProofs`, for up to six lines and any number of volume steps: `TypeCorrectness`,
`NobodyStarves`, `PressesAnsweredOnce`, `EndsAreReached`. The argument of
`NobodyStarves` is a binary counter. A line in front that was last seen up may still be served
before the line behind it, one last seen down may not; take the first kind as bits, worth
`2^(place - 1)`. A poll that serves a line in front clears its bit and can set only the bits
before it, so the number (`Credit`) falls (`CreditFalls`), and the polls passed by plus the
credit left stay within `Weight` (`Patience`). The same holds of a release; that is why a detector
is known to have seen its line up after `Weight` polls, and why a press is then `due`.

`ErrorRelayProofs`: `NobodyIsTold`, no error ever reaches a page (`NoErrorArrives`), because the
registry that `/error` looks at stays empty. The counterexample of `error_not_relayed` is thus
no accident of an order.

`SimpleFftProofs`, for the sizes 1, 2, 4, 8 and 16 and all data: `FFTIsDFT`, the array that
`rearrangeData` and `makeTransform` leave is the Fourier transform. The factors of a pass are
powers of a root of unity (`makeTransform` computes each from the one before). `rearrangeData`
counts up in bit-reversed numbers and exchanges each pair of places once, so that afterwards
every block of `2^k` places holds the samples a stride apart. A pass joins two neighbouring
blocks by the identity that the transform of the whole is that of the even samples plus or minus
a factor times that of the odd ones; the induction is over the passes. Numbers are those modulo
17, and the sizes are the orders of its roots of unity; no larger one is in the model.

`LightShowProofs`, for any songs, bands and levels: every invariant of `light_show`, from
two inductive ones. `FrameInv` is for `WholeFrames` (`FramesAreWhole`): while a frame is written,
the lines before the next are finished and the others dark, and a percentage asks for the
pixels whose middle is below it. `SongInv` is for the other six. It consists of

- `Loaded`: the pieces are those of the song being shown, or there are none;
- `Analysed`: in a frame, spectrum and bins are those of the current piece, the spectrum by
  its definition (with `FFTIsDFT`), and a silent piece has no loud band;
- `Ended`: an exception is that of the decoder or of a rate below `DFTsPrSecond`;
- `Coloured`: what a pixel shows is off or the colour of a line.

`CuttingCovers` is about the cutting alone and songs of any length: the doubling loop, proved by
induction over its turns (`PaddingLoop`), ends in the least power of two that is large enough, as
it does for the 1470 samples of a piece at 44100 Hz. `PiecesCover` is the same in the states of
the model, whose songs have at most 16 samples because numbers are those modulo 17;
`BinsCountOnce` that increasing edges cut the bins into disjoint ranges; `ConstantIsDark` that
the mean of equal samples is the sample, so that the remainder is silent; `InputTerminates` that
what the loop ends with passes the test of bits (`PowersAccepted`) and what the clamp leaves of
any level asks for eight pixels at most; `TypesHold` and
`SpectrumIsRight` follow directly.

`Arithmetic` makes induction available: `NumberInduction` and `SubsetInduction` speak of a set
that contains what is good, `RecursionExists` of a function that makes one step, so that neither
has an operator as a parameter and both can be cited. On them rest the recursive functions of
the models (`PowerOfTwo`, the transform), the remainders, and the sums over finite sets whatever
the order of addition.

The assumptions are those of the modules: `NumSongsAssumption`, `SizeTAssumption`,
`OrdersAssumption`, `FaultsAssumption`, `ButtonsAssumption`, `SegmentsAssumption`,
`SignalsAssumption`, `LinesAssumption`, `VolumeAssumption`, `SongsAssumption`, `ShowAssumption`;
TLC evaluates them in the runs. What a theorem supposes beyond them is in its statement: a
residue of 0 and no faults (`PreviousIsRight`), a size_t that can hold the number of songs
(`BackwardIsUnsigned`), and that no error
is worded like an answer to a ping or an echo (`NobodyIsTold`).

Only model-checked: the three liveness properties of `playback_liveness`, because the prover
does not reason about fairness over time or about ENABLED. The statements that the code
contradicts are of course not proved; for `previous_wraps` and `error_not_relayed` there are
theorems of when they hold and when not.

## 5. Not modelled

See "components" in `PROJECT.json` for every part.

- `writeError`: nothing in the client calls it (`ErrorRelay` models what the server would do), and
  the listing at `/`, which shows the order of the start, also from a copy.
- The member `curl` shared by the button thread's `shufflePlaylist` and the light thread's
  downloads: in `SongCache` a shuffle may fall into a download, but each call has its handle
  to itself. What libcurl does with a handle used twice at once is undefined.
- UI LEDs: a class without a user in the client.
- simple_fft: the inverse, two and three dimensions and `check_fft.hpp` have no caller.
- The decoders, the precision of floats, the loudness of a band, and the colours themselves.
- The libraries below `external/` are third-party code. The server is modelled for the one
  client of the deployment: a second one would move the same cursor.

## 6. Plan

What is left, in this order:

1. `CurlHandle`: who uses a handle somebody else performs or has cleaned up
   (`server_coms.cpp:57-84,178-197` and the destructor).
2. `MusicSystem`: `Playback` composed with `SongCache`: which song is heard while which is
   shown, presses during a download, a decoding error after a failed download.
3. `UiLed`: the LED states, should the class get a user.
4. Proofs: the safety invariants of 1 and 2.
