------------------------------ MODULE Playback ------------------------------
(***************************************************************************)
(* The threads of the client (client/src/main.cpp) and what they share     *)
(* (client/src/StatusVars.cpp): main, the button thread, the light thread, *)
(* the audio thread, and the SIGINT handler, which may run between any two *)
(* steps of the others.                                                    *)
(*                                                                         *)
(* A step is what a thread does between two accesses to shared state; the  *)
(* flags that one condition reads, or two conditions in a row, are read in *)
(* one step.                                                               *)
(* Waiting on a condition variable is what it is in the code: evaluate the *)
(* predicate, then go to sleep (releasing the mutex), and evaluate again   *)
(* when notified or for no reason.  A notification finds only the threads  *)
(* that already sleep, so the state between the evaluation and the sleep   *)
(* ("willSleep") is kept.                                                  *)
(*                                                                         *)
(* Left to SongCache: which song a download brings, and what a shuffle     *)
(* does to the order; here both are calls that may take for ever, as curl  *)
(* is given no timeout.  Left out: volume presses (Buttons has them), the  *)
(* contents of a frame, and time.                                          *)
(***************************************************************************)
EXTENDS Integers

CONSTANTS
    Buttons,          \* the buttons that are pressed
    SegmentCounts,    \* how many pieces a song may be cut into
    RepeatedSignals   \* whether SIGINT may arrive more than once

Presses == {"play", "skip", "rewind", "shuffle"}

ASSUME ButtonsAssumption == Buttons \subseteq Presses
ASSUME SegmentsAssumption == SegmentCounts \subseteq Nat
ASSUME SignalsAssumption == RepeatedSignals \in BOOLEAN

VARIABLES
    programShouldExit, firstPlay, isPaused, isSkip,
    nextSongRequested, lightWorkerReady,
    pathSet,          \* currentPath names a file
    pathOwner,        \* holder of currentPathMutex
    readyOwner,       \* holder of mtxLightReadyPlayAudioNow
    mpc, bpc, lpc, apc, spc,  \* where each thread is
    currentBitIndex, segments,
    firstFrame,       \* the local firstPlay of LightWorker::worker
    deviceOn,         \* the playback device runs
    playing,          \* ma_sound_is_playing
    terminated,       \* std::terminate ended the process
    went,             \* history: the branch LightWorker took for its song
    reason,           \* history: why the light thread fetches
    press,            \* history: the last skip or rewind not acted upon
    newest,           \* history: what has become of the newest song
    lateFrames        \* history: frames drawn since pausing or exiting

flags == <<programShouldExit, firstPlay, isPaused, isSkip,
           nextSongRequested, lightWorkerReady>>
locks == <<pathOwner, readyOwner>>
sound == <<deviceOn, playing>>
song == <<currentBitIndex, segments, firstFrame>>
history == <<went, reason, press, newest, lateFrames>>
vars == <<flags, pathSet, locks, mpc, bpc, lpc, apc, spc, song, sound,
          terminated, history>>

Owners == {"none", "light", "audio"}
MainSteps == {"wait", "willSleep", "asleep", "start",
              "joinLight", "joinAudio", "joinButton", "done"}
ButtonSteps == Presses \cup
               {"poll", "firstSet", "firstNotify", "resumeDevice",
                "resumeFlag", "resumeNotify", "pauseDevice", "pauseFlag",
                "skipDirection", "rewindDirection", "done"}
LightSteps == {"off", "top", "lockPath", "choose", "fetch", "lockReady",
               "setReady", "notifyReady", "outer", "waitPlay", "willSleep",
               "asleep", "check", "inner", "frame", "left", "done"}
AudioSteps == {"off", "top", "lockReady", "evalReady", "willSleep", "asleep",
               "lockPath", "load", "start", "poll", "reset", "clear", "done"}
SignalSteps == {"idle", "notifyPlay", "notifyReady"}

MaxLate == 2  \* bound of lateFrames: one more than is allowed

FlagTypes ==
    /\ programShouldExit \in BOOLEAN
    /\ firstPlay \in BOOLEAN
    /\ isPaused \in BOOLEAN
    /\ isSkip \in BOOLEAN
    /\ nextSongRequested \in BOOLEAN
    /\ lightWorkerReady \in BOOLEAN
    /\ pathSet \in BOOLEAN
    /\ firstFrame \in BOOLEAN
    /\ deviceOn \in BOOLEAN
    /\ playing \in BOOLEAN
    /\ terminated \in BOOLEAN

StepTypes ==
    /\ pathOwner \in Owners
    /\ readyOwner \in Owners
    /\ mpc \in MainSteps
    /\ bpc \in ButtonSteps
    /\ lpc \in LightSteps
    /\ apc \in AudioSteps
    /\ spc \in SignalSteps

SongTypes ==
    /\ segments \in SegmentCounts \cup {0}
    /\ currentBitIndex \in 0 .. segments

HistoryTypes ==
    /\ went \in {"none", "next", "previous"}
    /\ reason \in {"start", "end", "again", "skip", "rewind"}
    /\ press \in {"none", "skip", "rewind"}
    /\ newest \in {"fetched", "announced", "loaded"}
    /\ lateFrames \in 0 .. MaxLate

TypeOK == FlagTypes /\ StepTypes /\ SongTypes /\ HistoryTypes

Init ==
    /\ programShouldExit = FALSE
    /\ firstPlay = TRUE
    /\ isPaused = FALSE
    /\ isSkip = TRUE
    /\ nextSongRequested = FALSE
    /\ lightWorkerReady = FALSE
    /\ pathSet = FALSE
    /\ pathOwner = "none" /\ readyOwner = "none"
    /\ mpc = "wait" /\ bpc = "poll" /\ lpc = "off" /\ apc = "off" /\ spc = "idle"
    /\ currentBitIndex = 0 /\ segments = 0 /\ firstFrame = TRUE
    /\ deviceOn = TRUE /\ playing = FALSE
    /\ terminated = FALSE
    /\ went = "none" /\ reason = "start" /\ press = "none"
    /\ newest = "loaded" /\ lateFrames = 0

Running == ~terminated /\ mpc # "done"

-----------------------------------------------------------------------------
\* main: wait for the first press, start the two workers, join everyone.

mainOthers == <<flags, pathSet, locks, bpc, spc, song, sound, terminated, history>>

MainEvaluates ==
    /\ mpc = "wait"
    /\ mpc' = IF firstPlay THEN "willSleep" ELSE "start"
    /\ UNCHANGED <<mainOthers, lpc, apc>>

MainSleeps ==
    /\ mpc = "willSleep"
    /\ mpc' = "asleep"
    /\ UNCHANGED <<mainOthers, lpc, apc>>

MainStartsWorkers ==
    /\ mpc = "start"
    /\ mpc' = "joinLight"
    /\ lpc' = "top"
    /\ apc' = "top"
    /\ UNCHANGED mainOthers

MainJoins ==
    /\ \/ mpc = "joinLight"  /\ lpc = "done" /\ mpc' = "joinAudio"
       \/ mpc = "joinAudio"  /\ apc = "done" /\ mpc' = "joinButton"
       \/ mpc = "joinButton" /\ bpc = "done" /\ mpc' = "done"
    /\ UNCHANGED <<mainOthers, lpc, apc>>

MainStep == Running /\ (MainEvaluates \/ MainSleeps \/ MainStartsWorkers \/ MainJoins)

-----------------------------------------------------------------------------
\* The button thread: one press per poll, handled before the next poll.  A poll
\* that finds no button pressed changes nothing.
ButtonPolls ==
    /\ bpc = "poll"
    /\ IF programShouldExit THEN bpc' = "done" ELSE \E b \in Buttons : bpc' = b
    /\ UNCHANGED <<flags, pathSet, locks, mpc, lpc, apc, spc, song, sound,
                   terminated, history>>

ButtonPlays ==
    /\ bpc = "play"
    /\ bpc' = IF firstPlay THEN "firstSet"
              ELSE IF isPaused THEN "resumeDevice" ELSE "pauseDevice"
    /\ UNCHANGED <<flags, pathSet, locks, mpc, lpc, apc, spc, song, sound,
                   terminated, history>>

\* The first half of Skip and Rewind: the request, before its direction.
ButtonRequests ==
    /\ \/ bpc = "skip"   /\ press' = "skip"   /\ bpc' = "skipDirection"
       \/ bpc = "rewind" /\ press' = "rewind" /\ bpc' = "rewindDirection"
    /\ nextSongRequested' = TRUE
    /\ UNCHANGED <<programShouldExit, firstPlay, isPaused, isSkip,
                   lightWorkerReady, pathSet, locks, mpc, lpc, apc, spc, song,
                   sound, terminated, went, reason, newest, lateFrames>>

\* shufflePlaylist returns, with or without an answer of the server.  Until then
\* no button is polled.
ButtonShuffles ==
    /\ bpc = "shuffle"
    /\ bpc' = "poll"
    /\ UNCHANGED <<flags, pathSet, locks, mpc, lpc, apc, spc, song, sound,
                   terminated, history>>

ButtonFirstPlay ==
    /\ \/ /\ bpc = "firstSet"
          /\ firstPlay' = FALSE
          /\ bpc' = "firstNotify"
          /\ UNCHANGED mpc
       \/ /\ bpc = "firstNotify"
          /\ mpc' = IF mpc = "asleep" THEN "wait" ELSE mpc
          /\ bpc' = "poll"
          /\ UNCHANGED firstPlay
    /\ UNCHANGED <<programShouldExit, isPaused, isSkip, nextSongRequested,
                   lightWorkerReady, pathSet, locks, lpc, apc, spc, song, sound,
                   terminated, history>>

\* AudioWorker::pause: the device first, then the flag.
ButtonPauses ==
    /\ \/ /\ bpc = "pauseDevice"
          /\ deviceOn' = FALSE
          /\ bpc' = "pauseFlag"
          /\ UNCHANGED <<isPaused, lateFrames>>
       \/ /\ bpc = "pauseFlag"
          /\ isPaused' = TRUE
          /\ lateFrames' = IF programShouldExit THEN lateFrames ELSE 0
          /\ bpc' = "poll"
          /\ UNCHANGED deviceOn
    /\ UNCHANGED <<programShouldExit, firstPlay, isSkip, nextSongRequested,
                   lightWorkerReady, pathSet, locks, mpc, lpc, apc, spc, song,
                   playing, terminated, went, reason, press, newest>>

\* Mutant: resume does not notify.
ButtonResumesQuietly ==
    /\ \/ /\ bpc = "resumeDevice"
          /\ deviceOn' = TRUE
          /\ bpc' = "resumeFlag"
          /\ UNCHANGED isPaused
       \/ /\ bpc = "resumeFlag"
          /\ isPaused' = FALSE
          /\ bpc' = "poll"
          /\ UNCHANGED deviceOn
    /\ UNCHANGED <<programShouldExit, firstPlay, isSkip, nextSongRequested,
                   lightWorkerReady, pathSet, locks, mpc, lpc, apc, spc, song,
                   playing, terminated, history>>

\* AudioWorker::resume: device, flag, notification, and no mutex.
ButtonResumes ==
    /\ \/ /\ bpc = "resumeDevice"
          /\ deviceOn' = TRUE
          /\ bpc' = "resumeFlag"
          /\ UNCHANGED <<isPaused, lpc>>
       \/ /\ bpc = "resumeFlag"
          /\ isPaused' = FALSE
          /\ bpc' = "resumeNotify"
          /\ UNCHANGED <<deviceOn, lpc>>
       \/ /\ bpc = "resumeNotify"
          /\ lpc' = IF lpc = "asleep" THEN "waitPlay" ELSE lpc
          /\ bpc' = "poll"
          /\ UNCHANGED <<deviceOn, isPaused>>
    /\ UNCHANGED <<programShouldExit, firstPlay, isSkip, nextSongRequested,
                   lightWorkerReady, pathSet, locks, mpc, apc, spc, song,
                   playing, terminated, history>>

\* Mutant: Skip leaves the direction as it is.
ButtonKeepsDirection ==
    /\ \/ bpc = "skipDirection"   /\ UNCHANGED isSkip
       \/ bpc = "rewindDirection" /\ isSkip' = FALSE
    /\ bpc' = "poll"
    /\ UNCHANGED <<programShouldExit, firstPlay, isPaused, nextSongRequested,
                   lightWorkerReady, pathSet, locks, mpc, lpc, apc, spc, song,
                   sound, terminated, history>>

\* The second half of Skip and Rewind.  Nobody sleeps on cvTimeForNewSong.
ButtonSetsDirection ==
    /\ \/ bpc = "skipDirection"   /\ isSkip' = TRUE
       \/ bpc = "rewindDirection" /\ isSkip' = FALSE
    /\ bpc' = "poll"
    /\ UNCHANGED <<programShouldExit, firstPlay, isPaused, nextSongRequested,
                   lightWorkerReady, pathSet, locks, mpc, lpc, apc, spc, song,
                   sound, terminated, history>>

ButtonStep ==
    /\ Running
    /\ \/ ButtonPolls \/ ButtonPlays \/ ButtonFirstPlay \/ ButtonPauses
       \/ ButtonResumes \/ ButtonRequests \/ ButtonSetsDirection
       \/ ButtonShuffles

-----------------------------------------------------------------------------
\* The light thread.

lightOthers == <<programShouldExit, firstPlay, isPaused, isSkip,
                 nextSongRequested, mpc, bpc, spc, sound>>

LightTop ==
    /\ lpc = "top"
    /\ lpc' = IF programShouldExit THEN "done" ELSE "lockPath"
    /\ UNCHANGED <<lightOthers, lightWorkerReady, pathSet, locks, apc, song,
                   terminated, history>>

LightLocksPath ==
    /\ lpc = "lockPath"
    /\ pathOwner = "none"
    /\ pathOwner' = "light"
    /\ lpc' = "choose"
    /\ UNCHANGED <<lightOthers, lightWorkerReady, pathSet, readyOwner, apc, song,
                   terminated, history>>

\* The branch on isSkip; getNext or getPrevious then takes as long as the
\* network does, with currentPathMutex held.
LightChooses ==
    /\ lpc = "choose"
    /\ went' = IF isSkip THEN "next" ELSE "previous"
    /\ lpc' = "fetch"
    /\ UNCHANGED <<lightOthers, lightWorkerReady, pathSet, locks, apc, song,
                   terminated, reason, press, newest, lateFrames>>

\* The call has returned, whatever came of it: currentPath is assigned, the file
\* is decoded and cut up.
LightPrepares ==
    /\ lpc = "fetch"
    /\ pathSet' = TRUE
    /\ segments' \in SegmentCounts
    /\ currentBitIndex' = 0
    /\ firstFrame' = TRUE
    /\ newest' = "fetched"
    /\ pathOwner' = "none"
    /\ lpc' = "lockReady"
    /\ UNCHANGED <<lightOthers, lightWorkerReady, readyOwner, apc, terminated,
                   went, reason, press, lateFrames>>

\* The file is no audio file (an error page, a broken download): the exception
\* leaves the thread's function.
LightThrows ==
    /\ lpc = "fetch"
    /\ terminated' = TRUE
    /\ UNCHANGED <<lightOthers, lightWorkerReady, pathSet, locks, lpc, apc, song,
                   history>>

\* Mutant: lightWorkerReady is written without the mutex.
LightSkipsReadyMutex ==
    /\ lpc = "lockReady"
    /\ lpc' = "setReady"
    /\ UNCHANGED <<lightOthers, lightWorkerReady, pathSet, locks, apc, song,
                   terminated, history>>

LightLocksReady ==
    /\ lpc = "lockReady"
    /\ readyOwner = "none"
    /\ readyOwner' = "light"
    /\ lpc' = "setReady"
    /\ UNCHANGED <<lightOthers, lightWorkerReady, pathSet, pathOwner, apc, song,
                   terminated, history>>

LightSetsReady ==
    /\ lpc = "setReady"
    /\ lightWorkerReady' = TRUE
    /\ newest' = IF newest = "fetched" THEN "announced" ELSE newest
    /\ readyOwner' = "none"
    /\ lpc' = "notifyReady"
    /\ UNCHANGED <<lightOthers, pathSet, pathOwner, apc, song, terminated, went,
                   reason, press, lateFrames>>

\* Mutant: cvLightReadyPlayAudioNow is not notified.
LightForgetsToNotify ==
    /\ lpc = "notifyReady"
    /\ lpc' = "outer"
    /\ UNCHANGED <<lightOthers, lightWorkerReady, pathSet, locks, apc, song,
                   terminated, history>>

LightNotifiesReady ==
    /\ lpc = "notifyReady"
    /\ apc' = IF apc = "asleep" THEN "lockReady" ELSE apc
    /\ lpc' = "outer"
    /\ UNCHANGED <<lightOthers, lightWorkerReady, pathSet, locks, song,
                   terminated, history>>

\* Why the light thread leaves a song because of nextSongRequested: a press it
\* has not acted upon yet, or the flag of one it already has.
Asked == IF press = "none" THEN "again" ELSE press

LightOuter ==
    /\ lpc = "outer"
    /\ \/ /\ programShouldExit
          /\ lpc' = "left"
          /\ UNCHANGED reason
       \/ /\ ~programShouldExit
          /\ currentBitIndex >= segments
          /\ lpc' = "left"
          /\ reason' = "end"
       \/ /\ ~programShouldExit
          /\ currentBitIndex < segments
          /\ lpc' = IF firstFrame THEN "check" ELSE "waitPlay"
          /\ UNCHANGED reason
    /\ UNCHANGED <<lightOthers, lightWorkerReady, pathSet, locks, apc, song,
                   terminated, went, press, newest, lateFrames>>

\* Mutant: the predicate does not look at programShouldExit.
LightIgnoresExit ==
    /\ lpc = "waitPlay"
    /\ lpc' = IF ~isPaused \/ nextSongRequested THEN "check" ELSE "willSleep"
    /\ UNCHANGED <<lightOthers, lightWorkerReady, pathSet, locks, apc, song,
                   terminated, history>>

\* The predicate of cvPlay.wait.
LightEvaluatesPlay ==
    /\ lpc = "waitPlay"
    /\ lpc' = IF programShouldExit \/ ~isPaused \/ nextSongRequested
              THEN "check"
              ELSE "willSleep"
    /\ UNCHANGED <<lightOthers, lightWorkerReady, pathSet, locks, apc, song,
                   terminated, history>>

LightSleeps ==
    /\ lpc = "willSleep"
    /\ lpc' = "asleep"
    /\ UNCHANGED <<lightOthers, lightWorkerReady, pathSet, locks, apc, song,
                   terminated, history>>

LightChecks ==
    /\ lpc = "check"
    /\ \/ /\ programShouldExit
          /\ lpc' = "left"
          /\ UNCHANGED <<reason, press>>
       \/ /\ ~programShouldExit
          /\ nextSongRequested
          /\ lpc' = "left"
          /\ reason' = Asked
          /\ press' = "none"
       \/ /\ ~programShouldExit
          /\ ~nextSongRequested
          /\ lpc' = "inner"
          /\ UNCHANGED <<reason, press>>
    /\ UNCHANGED <<lightOthers, lightWorkerReady, pathSet, locks, apc, song,
                   terminated, went, newest, lateFrames>>

\* Mutant: the bounds check inside the loop is off by one.
LightInnerOverruns ==
    /\ lpc = "inner"
    /\ \/ /\ isPaused \/ programShouldExit
          /\ lpc' = "outer"
          /\ UNCHANGED <<firstFrame, reason, press>>
       \/ /\ ~isPaused /\ ~programShouldExit
          /\ nextSongRequested
          /\ firstFrame' = FALSE
          /\ lpc' = "left"
          /\ reason' = Asked
          /\ press' = "none"
       \/ /\ ~isPaused /\ ~programShouldExit
          /\ ~nextSongRequested
          /\ firstFrame' = FALSE
          /\ lpc' = IF currentBitIndex > segments THEN "outer" ELSE "frame"
          /\ UNCHANGED <<reason, press>>
    /\ UNCHANGED <<lightOthers, lightWorkerReady, pathSet, locks, apc,
                   currentBitIndex, segments, terminated, went, newest, lateFrames>>

\* Mutant: the loop runs to the end of the song whatever the flags say.
LightInnerNeverPauses ==
    /\ lpc = "inner"
    /\ \/ /\ nextSongRequested
          /\ firstFrame' = FALSE
          /\ lpc' = "left"
          /\ reason' = Asked
          /\ press' = "none"
       \/ /\ ~nextSongRequested
          /\ firstFrame' = FALSE
          /\ lpc' = IF currentBitIndex >= segments THEN "outer" ELSE "frame"
          /\ UNCHANGED <<reason, press>>
    /\ UNCHANGED <<lightOthers, lightWorkerReady, pathSet, locks, apc,
                   currentBitIndex, segments, terminated, went, newest, lateFrames>>

\* The head of the inner loop and its two early exits.
LightInner ==
    /\ lpc = "inner"
    /\ \/ /\ isPaused \/ programShouldExit
          /\ lpc' = "outer"
          /\ UNCHANGED <<firstFrame, reason, press>>
       \/ /\ ~isPaused /\ ~programShouldExit
          /\ nextSongRequested
          /\ firstFrame' = FALSE
          /\ lpc' = "left"
          /\ reason' = Asked
          /\ press' = "none"
       \/ /\ ~isPaused /\ ~programShouldExit
          /\ ~nextSongRequested
          /\ firstFrame' = FALSE
          /\ lpc' = IF currentBitIndex >= segments THEN "outer" ELSE "frame"
          /\ UNCHANGED <<reason, press>>
    /\ UNCHANGED <<lightOthers, lightWorkerReady, pathSet, locks, apc,
                   currentBitIndex, segments, terminated, went, newest, lateFrames>>

\* A piece is transformed and drawn.
LightDraws ==
    /\ lpc = "frame"
    /\ currentBitIndex' = currentBitIndex + 1
    /\ lateFrames' = IF (isPaused \/ programShouldExit) /\ lateFrames < MaxLate
                     THEN lateFrames + 1
                     ELSE lateFrames
    /\ lpc' = "inner"
    /\ UNCHANGED <<lightOthers, lightWorkerReady, pathSet, locks, apc, segments,
                   firstFrame, terminated, went, reason, press, newest>>

\* Nobody sleeps on cvTimeForNewSong, which is notified here.
LightLeaves ==
    /\ lpc = "left"
    /\ lpc' = IF programShouldExit THEN "done" ELSE "top"
    /\ UNCHANGED <<lightOthers, lightWorkerReady, pathSet, locks, apc, song,
                   terminated, history>>

LightStep ==
    /\ Running
    /\ \/ LightTop \/ LightLocksPath \/ LightChooses \/ LightPrepares
       \/ LightThrows \/ LightLocksReady \/ LightSetsReady
       \/ LightNotifiesReady \/ LightOuter \/ LightEvaluatesPlay
       \/ LightSleeps \/ LightChecks \/ LightInner \/ LightDraws \/ LightLeaves

-----------------------------------------------------------------------------
\* The audio thread.

audioOthers == <<programShouldExit, firstPlay, isPaused, isSkip, pathSet, mpc,
                 bpc, lpc, spc, song, deviceOn, terminated, went, reason, press,
                 lateFrames>>

\* The predicate of cvTimeForNewSong.wait is always true: no wait.
AudioTop ==
    /\ apc = "top"
    /\ apc' = IF programShouldExit THEN "done" ELSE "lockReady"
    /\ UNCHANGED <<audioOthers, nextSongRequested, lightWorkerReady, locks,
                   playing, newest>>

AudioLocksReady ==
    /\ apc = "lockReady"
    /\ readyOwner = "none"
    /\ readyOwner' = "audio"
    /\ apc' = "evalReady"
    /\ UNCHANGED <<audioOthers, nextSongRequested, lightWorkerReady, pathOwner,
                   playing, newest>>

\* Mutant: the predicate is always true, as that of cvTimeForNewSong is.
AudioNeverWaits ==
    /\ apc = "evalReady"
    /\ readyOwner' = "none"
    /\ apc' = IF programShouldExit THEN "done" ELSE "lockPath"
    /\ UNCHANGED <<audioOthers, nextSongRequested, lightWorkerReady, pathOwner,
                   playing, newest>>

AudioEvaluatesReady ==
    /\ apc = "evalReady"
    /\ IF programShouldExit \/ lightWorkerReady
       THEN /\ readyOwner' = "none"
            /\ apc' = IF programShouldExit THEN "done" ELSE "lockPath"
       ELSE apc' = "willSleep" /\ UNCHANGED readyOwner
    /\ UNCHANGED <<audioOthers, nextSongRequested, lightWorkerReady, pathOwner,
                   playing, newest>>

AudioSleeps ==
    /\ apc = "willSleep"
    /\ readyOwner' = "none"
    /\ apc' = "asleep"
    /\ UNCHANGED <<audioOthers, nextSongRequested, lightWorkerReady, pathOwner,
                   playing, newest>>

\* Mutant: currentPath is read without the mutex.
AudioSkipsPathMutex ==
    /\ apc = "lockPath"
    /\ apc' = "load"
    /\ UNCHANGED <<audioOthers, nextSongRequested, lightWorkerReady, locks,
                   playing, newest>>

AudioLocksPath ==
    /\ apc = "lockPath"
    /\ pathOwner = "none"
    /\ pathOwner' = "audio"
    /\ apc' = "load"
    /\ UNCHANGED <<audioOthers, nextSongRequested, lightWorkerReady, readyOwner,
                   playing, newest>>

\* The file is opened under the mutex.  If that fails the thread starts over
\* with lightWorkerReady still set, and so tries again at once.
AudioLoads ==
    /\ apc = "load"
    /\ pathOwner' = "none"
    /\ \/ apc' = "start" /\ newest' = "loaded"
       \/ apc' = "top" /\ UNCHANGED newest
    /\ UNCHANGED <<audioOthers, nextSongRequested, lightWorkerReady, readyOwner,
                   playing>>

AudioStarts ==
    /\ apc = "start"
    /\ playing' = TRUE
    /\ apc' = "poll"
    /\ UNCHANGED <<audioOthers, nextSongRequested, lightWorkerReady, locks, newest>>

\* Mutant: the sound is not stopped on exit.
AudioLeavesSoundOn ==
    /\ apc = "poll"
    /\ \/ /\ ~playing \/ programShouldExit
          /\ apc' = "clear"
          /\ UNCHANGED playing
       \/ /\ playing /\ ~programShouldExit
          /\ nextSongRequested
          /\ playing' = FALSE
          /\ apc' = "reset"
    /\ UNCHANGED <<audioOthers, nextSongRequested, lightWorkerReady, locks, newest>>

\* The polling loop and the stop that follows it on exit.
AudioPolls ==
    /\ apc = "poll"
    /\ \/ /\ ~playing \/ programShouldExit
          /\ playing' = IF programShouldExit THEN FALSE ELSE playing
          /\ apc' = "clear"
       \/ /\ playing /\ ~programShouldExit
          /\ nextSongRequested
          /\ playing' = FALSE
          /\ apc' = "reset"
    /\ UNCHANGED <<audioOthers, nextSongRequested, lightWorkerReady, locks, newest>>

AudioResetsRequest ==
    /\ apc = "reset"
    /\ nextSongRequested' = FALSE
    /\ apc' = "clear"
    /\ UNCHANGED <<audioOthers, lightWorkerReady, locks, playing, newest>>

\* Without mtxLightReadyPlayAudioNow.
AudioClearsReady ==
    /\ apc = "clear"
    /\ lightWorkerReady' = FALSE
    /\ apc' = "top"
    /\ UNCHANGED <<audioOthers, nextSongRequested, locks, playing, newest>>

AudioStep ==
    /\ Running
    /\ \/ AudioTop \/ AudioLocksReady \/ AudioEvaluatesReady \/ AudioSleeps
       \/ AudioLocksPath \/ AudioLoads \/ AudioStarts \/ AudioPolls
       \/ AudioResetsRequest \/ AudioClearsReady

-----------------------------------------------------------------------------
\* SIGINT: signalHandler sets the flag and notifies, holding no mutex.

signalOthers == <<firstPlay, isPaused, isSkip, nextSongRequested,
                  lightWorkerReady, pathSet, locks, mpc, bpc, song, sound,
                  terminated, went, reason, press, newest>>

SignalArrives ==
    /\ Running
    /\ spc = "idle"
    /\ RepeatedSignals \/ ~programShouldExit
    /\ programShouldExit' = TRUE
    /\ lateFrames' = IF programShouldExit \/ isPaused THEN lateFrames ELSE 0
    /\ spc' = "notifyPlay"
    /\ UNCHANGED <<signalOthers, lpc, apc>>

SignalNotifies ==
    /\ \/ /\ spc = "notifyPlay"
          /\ lpc' = IF lpc = "asleep" THEN "waitPlay" ELSE lpc
          /\ spc' = "notifyReady"
          /\ UNCHANGED apc
       \/ /\ spc = "notifyReady"
          /\ apc' = IF apc = "asleep" THEN "lockReady" ELSE apc
          /\ spc' = "idle"
          /\ UNCHANGED lpc
    /\ UNCHANGED <<signalOthers, programShouldExit, lateFrames>>

SignalStep == Running /\ SignalNotifies

-----------------------------------------------------------------------------
\* The environment: the end of the sound (only while the device runs) and
\* wake-ups nobody asked for.

SoundEnds ==
    /\ Running
    /\ playing /\ deviceOn
    /\ playing' = FALSE
    /\ UNCHANGED <<flags, pathSet, locks, mpc, bpc, lpc, apc, spc, song, deviceOn,
                   terminated, history>>

SpuriousWakeup ==
    /\ Running
    /\ \/ mpc = "asleep" /\ mpc' = "wait" /\ UNCHANGED <<lpc, apc>>
       \/ lpc = "asleep" /\ lpc' = "waitPlay" /\ UNCHANGED <<mpc, apc>>
       \/ apc = "asleep" /\ apc' = "lockReady" /\ UNCHANGED <<mpc, lpc>>
    /\ UNCHANGED <<flags, pathSet, locks, bpc, spc, song, sound, terminated, history>>

\* The process is over.
Finished == ~Running /\ UNCHANGED vars

Next ==
    \/ MainStep
    \/ ButtonStep
    \/ LightStep
    \/ AudioStep
    \/ SignalArrives
    \/ SignalStep
    \/ SoundEnds
    \/ SpuriousWakeup
    \/ Finished

Spec == Init /\ [][Next]_vars

\* A thread that can run does run, except that a call over the network need not
\* return; and a sound whose device keeps running comes to its end.  The audio
\* thread gets mtxLightReadyPlayAudioNow if the mutex is free again and again:
\* the light thread holds it for one assignment per song.  Nothing makes the user
\* press a button or send a signal.
ButtonProceeds ==
    ButtonStep /\ bpc # "shuffle" /\ (bpc # "poll" \/ programShouldExit)

LightProceeds == LightStep /\ lpc # "fetch"

Fairness ==
    /\ WF_vars(MainStep)
    /\ WF_vars(ButtonProceeds)
    /\ WF_vars(LightProceeds)
    /\ WF_vars(AudioStep) /\ SF_vars(Running /\ AudioLocksReady)
    /\ WF_vars(SignalStep)
    /\ WF_vars(SoundEnds)

FairSpec == Spec /\ Fairness

\* Every call over the network returns.  The code does not see to it: no request
\* has a timeout (server_coms.cpp:81, 125, 161, 195), so this is up to the
\* server and the network, and properties that need it say so.
CallsReturn ==
    /\ WF_vars(Running /\ (LightPrepares \/ LightThrows))
    /\ WF_vars(Running /\ ButtonShuffles)

\* The user repeats Ctrl-C until the program is gone.
Insisting == WF_vars(SignalArrives)

InsistentSpec == FairSpec /\ Insisting /\ CallsReturn

-----------------------------------------------------------------------------
\* What holds.

\* The hand-over from the light thread to the audio thread loses no wake-up:
\* if the audio thread sleeps although a song is ready, the notification is
\* still to come.  This is why LightWorker writes lightWorkerReady under
\* mtxLightReadyPlayAudioNow (LightWorker.cpp:50-55).
ReadyIsNotMissed ==
    apc = "asleep" /\ lightWorkerReady => lpc = "notifyReady"

\* The audio thread never opens a file while the light thread is choosing,
\* downloading or decoding one: getNext and getPrevious rewrite the song files,
\* and currentPathMutex is held across the whole of it (LightWorker.cpp:22-41,
\* AudioWorker.cpp:76-82).
NoLoadDuringFetch ==
    apc = "load" => lpc \notin {"choose", "fetch"}

\* The audio thread never opens the empty path currentPath starts as, although
\* its first wait (cvTimeForNewSong) lets it through at once.
NeverLoadsEmptyPath ==
    apc = "load" => pathSet

\* An audio thread that has ended left no sound on, wherever the signal met it.
QuietAtExit ==
    apc = "done" => ~playing

\* Music and lights stop together up to one frame: after a pause, or a signal,
\* is visible the light thread draws at most the frame it had begun.
AtMostOneLateFrame ==
    lateFrames <= 1

\* The press the light thread is about to serve when it chooses a song: the one
\* raised last, even if it came after the press that made it leave the song.
Served == IF press = "none" THEN reason ELSE press

\* The request is raised before its direction is written, on another thread than
\* the one that serves it.  Still, the light thread goes in the direction of the
\* last press whenever it chooses outside the two writes of a press: neither an
\* earlier press nor what happened since turns that one around
\* (ButtonWorker.cpp:98-99, 108-109; LightWorker.cpp:26).  A press that another
\* has overtaken by then is not served in its own direction, or not at all: a
\* Skip followed by a Rewind before the choice goes back one song.
PressServedInDirection ==
    [][/\ lpc = "choose" /\ lpc' = "fetch"
       /\ bpc \notin {"skipDirection", "rewindDirection"}
       => /\ Served = "skip" => went' = "next"
          /\ Served = "rewind" => went' = "previous"]_vars

\* A song that is announced to a waiting audio thread is taken: it goes on to
\* load the file, or the program ends.
ReadySongIsTaken ==
    lightWorkerReady /\ apc \in {"evalReady", "willSleep", "asleep"}
        ~> apc \in {"lockPath", "load", "done"} \/ ~Running

\* Once the workers are started, Ctrl-C repeated long enough ends the program
\* wherever its threads are, provided that every call over the network returns: a
\* notification lost on one occasion is made up for by another (signalHandler and
\* the two waits of the workers).  Without that proviso the program does not end:
\* main joins a light thread or a button thread that waits for the server.
InsistingEndsProgram ==
    Insisting /\ CallsReturn =>
        (programShouldExit /\ mpc \notin {"wait", "willSleep", "asleep"} ~> ~Running)

\* A resume between the light thread's evaluation and its sleep is lost, as
\* resume notifies without mtxPlayLight.  Lights left asleep by it do wake up if
\* the user goes on pressing play: a later resume finds them asleep, however often
\* Shuffle is pressed in between, as long as its calls return
\* (AudioWorker.cpp:35-47, LightWorker.cpp:72-79).
InsistingWakesLights ==
    SF_vars(Running /\ ButtonPolls /\ bpc' = "play") /\ CallsReturn =>
        (lpc = "asleep" ~> lpc # "asleep" \/ programShouldExit \/ ~Running)

-----------------------------------------------------------------------------
\* What the comments and diagrams promise and the code does not do.

\* client/src/main.cpp:22, "Notify all condition variables to unblock threads":
\* the signal, repeated or not, ends the program.
SignalEndsProgram ==
    programShouldExit ~> ~Running

\* client/src/LightWorker.cpp:77, "Also wake on skip": a light thread asleep in
\* a pause wakes up for a skip.
SkipWakesLights ==
    lpc = "asleep" /\ isPaused /\ nextSongRequested
        ~> lpc # "asleep" \/ programShouldExit \/ ~Running

\* SD/3_control_audio_alt.puml:51-58: one press of Skip, one song further.  The
\* light thread leaves a song by request only for a press it has not served.
OneSongPerPress ==
    lpc = "fetch" => reason # "again"

\* SD/ny_overordnet/sd_overordnet_v2.puml:27-34: every song prepared is both
\* played and shown.  Short of an exit, the announcement of a song is taken back
\* only after the audio thread has loaded that song.
AnnouncedSongIsHeard ==
    [][lightWorkerReady /\ ~lightWorkerReady' =>
         newest # "announced" \/ programShouldExit]_vars

=============================================================================
