--------------------------- MODULE PlaybackProofs ---------------------------
(***************************************************************************)
(* The safety invariants of Playback hold for every choice of Buttons,     *)
(* SegmentCounts and RepeatedSignals.  None of them is inductive by        *)
(* itself: who holds which mutex has to be tied to where the threads are.  *)
(***************************************************************************)
EXTENDS Playback, TLAPS

\* A worker exists only after main has gone past its wait.
WorkersOff ==
    mpc \in {"wait", "willSleep", "asleep", "start"} => lpc = "off" /\ apc = "off"

\* The holder of a mutex is inside the section it guards, and conversely.
PathMutex ==
    /\ pathOwner = "light" <=> lpc \in {"choose", "fetch"}
    /\ pathOwner = "audio" <=> apc = "load"

ReadyMutex ==
    /\ readyOwner = "light" <=> lpc = "setReady"
    /\ readyOwner = "audio" <=> apc \in {"evalReady", "willSleep"}

\* Between its evaluation and its sleep the audio thread holds the mutex, so
\* that no song can be announced there.
Announcement ==
    /\ apc = "willSleep" => ~lightWorkerReady
    /\ ReadyIsNotMissed

\* A song is announced only when currentPath names it.
PathKnown ==
    /\ lightWorkerReady => pathSet
    /\ lpc \in {"lockReady", "setReady"} => pathSet
    /\ apc \in {"lockPath", "load"} => pathSet

\* The sound runs only while the audio thread watches it.
SoundWatched == playing => apc = "poll"

\* A frame begun before a pause or an exit is the only one drawn after it.
Lateness ==
    /\ lateFrames <= 1
    /\ (isPaused \/ programShouldExit) /\ lateFrames = 1 => lpc # "frame"

\* There is a piece left for the frame being drawn.
FrameExists == lpc = "frame" => currentBitIndex < segments

IInv ==
    /\ TypeOK
    /\ WorkersOff
    /\ PathMutex
    /\ ReadyMutex
    /\ Announcement
    /\ PathKnown
    /\ SoundWatched
    /\ Lateness
    /\ FrameExists

-----------------------------------------------------------------------------
\* The steps of the light and the audio thread, in the groups the proofs treat
\* together.
LightFetches ==
    LightTop \/ LightLocksPath \/ LightChooses \/ LightPrepares \/ LightThrows

LightAnnounces == LightLocksReady \/ LightSetsReady \/ LightNotifiesReady

LightShows ==
    \/ LightOuter \/ LightEvaluatesPlay \/ LightSleeps \/ LightChecks
    \/ LightInner \/ LightDraws \/ LightLeaves

AudioWaits ==
    AudioTop \/ AudioLocksReady \/ AudioEvaluatesReady \/ AudioSleeps

AudioPlays ==
    \/ AudioLocksPath \/ AudioLoads \/ AudioStarts \/ AudioPolls
    \/ AudioResetsRequest \/ AudioClearsReady

Steps ==
    \/ MainStep \/ ButtonStep
    \/ LightFetches \/ LightAnnounces \/ LightShows
    \/ AudioWaits \/ AudioPlays
    \/ SignalArrives \/ SignalStep
    \/ SoundEnds \/ SpuriousWakeup

\* Every step is in one of the groups or changes nothing.
LEMMA StepsCoverNext == [Next]_vars => Steps \/ UNCHANGED vars
  BY DEF Next, Steps, LightStep, LightFetches, LightAnnounces, LightShows,
         AudioStep, AudioWaits, AudioPlays, Finished

-----------------------------------------------------------------------------
\* The program starts in the invariant: no worker runs and no mutex is held.
LEMMA InitIInv == Init => IInv
<1> SUFFICES ASSUME Init PROVE IInv
  OBVIOUS
<1> USE DEF Init
<1>1. FlagTypes
  BY DEF FlagTypes
<1>2. StepTypes
  BY DEF StepTypes, Owners, MainSteps, ButtonSteps, LightSteps, AudioSteps,
         SignalSteps
<1>3. SongTypes /\ HistoryTypes
  BY DEF SongTypes, HistoryTypes, MaxLate
<1>4. WorkersOff /\ PathMutex /\ ReadyMutex
  BY DEF WorkersOff, PathMutex, ReadyMutex
<1>5. Announcement /\ PathKnown
  BY DEF Announcement, ReadyIsNotMissed, PathKnown
<1>6. SoundWatched /\ Lateness /\ FrameExists
  BY DEF SoundWatched, Lateness, FrameExists
<1> QED
  BY <1>1, <1>2, <1>3, <1>4, <1>5, <1>6 DEF IInv, TypeOK

\* Every step keeps the flags Boolean.
LEMMA StepFlagTypes == IInv /\ [Next]_vars => FlagTypes'
<1> SUFFICES ASSUME IInv, Steps \/ UNCHANGED vars PROVE FlagTypes'
  BY StepsCoverNext
<1> USE DEF IInv, vars, flags, locks, sound, song, history,
            TypeOK, FlagTypes
<1>1. CASE MainStep
  BY <1>1 DEF MainStep, MainEvaluates, MainSleeps, MainStartsWorkers,
         MainJoins, mainOthers
<1>2. CASE ButtonStep
  <2>1. CASE ButtonPolls \/ ButtonPlays \/ ButtonShuffles
    BY <2>1 DEF ButtonPolls, ButtonPlays, ButtonShuffles
  <2>2. CASE ButtonFirstPlay
    BY <2>2 DEF ButtonFirstPlay
  <2>3. CASE ButtonPauses
    BY <2>3 DEF ButtonPauses
  <2>4. CASE ButtonResumes
    <3>1. isPaused' \in BOOLEAN
      BY <2>4 DEF ButtonResumes
    <3> QED
      BY <2>4, <3>1 DEF ButtonResumes
  <2>5. CASE ButtonRequests
    BY <2>5 DEF ButtonRequests
  <2>6. CASE ButtonSetsDirection
    BY <2>6 DEF ButtonSetsDirection
  <2> QED
    BY <1>2, <2>1, <2>2, <2>3, <2>4, <2>5, <2>6 DEF ButtonStep
<1>3. CASE LightFetches
  <2>1. CASE LightTop
    BY <2>1 DEF LightTop, lightOthers
  <2>2. CASE LightLocksPath
    BY <2>2 DEF LightLocksPath, lightOthers
  <2>3. CASE LightChooses
    BY <2>3 DEF LightChooses, lightOthers
  <2>4. CASE LightPrepares
    BY <2>4 DEF LightPrepares, lightOthers
  <2>5. CASE LightThrows
    BY <2>5 DEF LightThrows, lightOthers
  <2> QED
    BY <1>3, <2>1, <2>2, <2>3, <2>4, <2>5 DEF LightFetches
<1>4. CASE LightAnnounces
  <2>1. CASE LightLocksReady
    BY <2>1 DEF LightLocksReady, lightOthers
  <2>2. CASE LightSetsReady
    BY <2>2 DEF LightSetsReady, lightOthers
  <2>3. CASE LightNotifiesReady
    BY <2>3 DEF LightNotifiesReady, lightOthers
  <2> QED
    BY <1>4, <2>1, <2>2, <2>3 DEF LightAnnounces
<1>5. CASE LightShows
  <2>1. CASE LightOuter
    BY <2>1 DEF LightOuter, lightOthers
  <2>2. CASE LightEvaluatesPlay
    BY <2>2 DEF LightEvaluatesPlay, lightOthers
  <2>3. CASE LightSleeps
    BY <2>3 DEF LightSleeps, lightOthers
  <2>4. CASE LightChecks
    BY <2>4 DEF LightChecks, lightOthers, Asked
  <2>5. CASE LightInner
    BY <2>5 DEF LightInner, lightOthers, Asked
  <2>6. CASE LightDraws
    BY <2>6 DEF LightDraws, lightOthers
  <2>7. CASE LightLeaves
    BY <2>7 DEF LightLeaves, lightOthers
  <2> QED
    BY <1>5, <2>1, <2>2, <2>3, <2>4, <2>5, <2>6, <2>7 DEF LightShows
<1>6. CASE AudioWaits
  BY <1>6 DEF AudioWaits, AudioTop, AudioLocksReady, AudioEvaluatesReady,
         AudioSleeps, audioOthers
<1>7. CASE AudioPlays
  <2>1. CASE AudioLocksPath
    BY <2>1 DEF AudioLocksPath, audioOthers
  <2>2. CASE AudioLoads
    BY <2>2 DEF AudioLoads, audioOthers
  <2>3. CASE AudioStarts
    BY <2>3 DEF AudioStarts, audioOthers
  <2>4. CASE AudioPolls
    BY <2>4 DEF AudioPolls, audioOthers
  <2>5. CASE AudioResetsRequest
    BY <2>5 DEF AudioResetsRequest, audioOthers
  <2>6. CASE AudioClearsReady
    BY <2>6 DEF AudioClearsReady, audioOthers
  <2> QED
    BY <1>7, <2>1, <2>2, <2>3, <2>4, <2>5, <2>6 DEF AudioPlays
<1>8. CASE SignalArrives
  BY <1>8 DEF SignalArrives, signalOthers
<1>9. CASE SignalStep
  BY <1>9 DEF SignalStep, SignalNotifies, signalOthers
<1>10. CASE SoundEnds
  BY <1>10 DEF SoundEnds
<1>11. CASE SpuriousWakeup
  BY <1>11 DEF SpuriousWakeup
<1>12. CASE UNCHANGED vars
  BY <1>12
<1> QED
  BY <1>1, <1>2, <1>3, <1>4, <1>5, <1>6, <1>7, <1>8, <1>9, <1>10, <1>11, <1>12
     DEF Steps

\* Program counters and mutexes stay in their sets.
LEMMA StepStepTypes == IInv /\ [Next]_vars => StepTypes'
<1> SUFFICES ASSUME IInv, Steps \/ UNCHANGED vars PROVE StepTypes'
  BY StepsCoverNext
<1> USE DEF IInv, vars, flags, locks, sound, song, history,
            TypeOK, StepTypes, Owners, MainSteps, ButtonSteps, Presses,
            LightSteps, AudioSteps, SignalSteps
<1>1. CASE MainStep
  BY <1>1 DEF MainStep, MainEvaluates, MainSleeps, MainStartsWorkers,
         MainJoins, mainOthers
<1>2. CASE ButtonStep
  BY <1>2, ButtonsAssumption DEF ButtonStep, ButtonPolls, ButtonPlays, ButtonFirstPlay,
         ButtonPauses, ButtonResumes, ButtonRequests, ButtonSetsDirection,
         ButtonShuffles
<1>3. CASE LightFetches
  BY <1>3 DEF LightFetches, LightTop, LightLocksPath, LightChooses,
         LightPrepares, LightThrows, lightOthers
<1>4. CASE LightAnnounces
  BY <1>4 DEF LightAnnounces, LightLocksReady, LightSetsReady,
         LightNotifiesReady, lightOthers
<1>5. CASE LightShows
  BY <1>5 DEF LightShows, LightOuter, LightEvaluatesPlay, LightSleeps,
         LightChecks, LightInner, LightDraws, LightLeaves, Asked, lightOthers
<1>6. CASE AudioWaits
  BY <1>6 DEF AudioWaits, AudioTop, AudioLocksReady, AudioEvaluatesReady,
         AudioSleeps, audioOthers
<1>7. CASE AudioPlays
  BY <1>7 DEF AudioPlays, AudioLocksPath, AudioLoads, AudioStarts, AudioPolls,
         AudioResetsRequest, AudioClearsReady, audioOthers
<1>8. CASE SignalArrives
  BY <1>8 DEF SignalArrives, signalOthers
<1>9. CASE SignalStep
  BY <1>9 DEF SignalStep, SignalNotifies, signalOthers
<1>10. CASE SoundEnds
  BY <1>10 DEF SoundEnds
<1>11. CASE SpuriousWakeup
  BY <1>11 DEF SpuriousWakeup
<1>12. CASE UNCHANGED vars
  BY <1>12
<1> QED
  BY <1>1, <1>2, <1>3, <1>4, <1>5, <1>6, <1>7, <1>8, <1>9, <1>10, <1>11, <1>12
     DEF Steps

\* The index stays within the song: drawing needs a piece to draw.
LEMMA StepSongTypes == IInv /\ [Next]_vars => SongTypes'
<1> SUFFICES ASSUME IInv, Steps \/ UNCHANGED vars PROVE SongTypes'
  BY StepsCoverNext
<1> USE DEF IInv, vars, flags, locks, sound, song, history,
            TypeOK, SongTypes, FrameExists
<1>1. CASE MainStep
  BY <1>1 DEF MainStep, MainEvaluates, MainSleeps, MainStartsWorkers,
         MainJoins, mainOthers
<1>2. CASE ButtonStep
  BY <1>2 DEF ButtonStep, ButtonPolls, ButtonPlays, ButtonFirstPlay,
         ButtonPauses, ButtonResumes, ButtonRequests, ButtonSetsDirection,
         ButtonShuffles
<1>3. CASE LightFetches
  <2>1. CASE LightTop
    BY <2>1 DEF LightTop, lightOthers
  <2>2. CASE LightLocksPath
    BY <2>2 DEF LightLocksPath, lightOthers
  <2>3. CASE LightChooses
    BY <2>3 DEF LightChooses, lightOthers
  <2>4. CASE LightPrepares
    BY <2>4, SegmentsAssumption DEF LightPrepares, lightOthers
  <2>5. CASE LightThrows
    BY <2>5 DEF LightThrows, lightOthers
  <2> QED
    BY <1>3, <2>1, <2>2, <2>3, <2>4, <2>5 DEF LightFetches
<1>4. CASE LightAnnounces
  BY <1>4 DEF LightAnnounces, LightLocksReady, LightSetsReady,
         LightNotifiesReady, lightOthers
<1>5. CASE LightShows
  <2>1. CASE LightOuter
    BY <2>1 DEF LightOuter, lightOthers
  <2>2. CASE LightEvaluatesPlay
    BY <2>2 DEF LightEvaluatesPlay, lightOthers
  <2>3. CASE LightSleeps
    BY <2>3 DEF LightSleeps, lightOthers
  <2>4. CASE LightChecks
    BY <2>4 DEF LightChecks, lightOthers, Asked
  <2>5. CASE LightInner
    BY <2>5 DEF LightInner, lightOthers, Asked
  <2>6. CASE LightDraws
    BY <2>6, SegmentsAssumption DEF LightDraws, lightOthers
  <2>7. CASE LightLeaves
    BY <2>7 DEF LightLeaves, lightOthers
  <2> QED
    BY <1>5, <2>1, <2>2, <2>3, <2>4, <2>5, <2>6, <2>7 DEF LightShows
<1>6. CASE AudioWaits
  BY <1>6 DEF AudioWaits, AudioTop, AudioLocksReady, AudioEvaluatesReady,
         AudioSleeps, audioOthers
<1>7. CASE AudioPlays
  BY <1>7 DEF AudioPlays, AudioLocksPath, AudioLoads, AudioStarts, AudioPolls,
         AudioResetsRequest, AudioClearsReady, audioOthers
<1>8. CASE SignalArrives
  BY <1>8 DEF SignalArrives, signalOthers
<1>9. CASE SignalStep
  BY <1>9 DEF SignalStep, SignalNotifies, signalOthers
<1>10. CASE SoundEnds
  BY <1>10 DEF SoundEnds
<1>11. CASE SpuriousWakeup
  BY <1>11 DEF SpuriousWakeup
<1>12. CASE UNCHANGED vars
  BY <1>12
<1> QED
  BY <1>1, <1>2, <1>3, <1>4, <1>5, <1>6, <1>7, <1>8, <1>9, <1>10, <1>11, <1>12
     DEF Steps

\* Every step keeps the types of the history variables.
LEMMA StepHistoryTypes == IInv /\ [Next]_vars => HistoryTypes'
<1> SUFFICES ASSUME IInv, Steps \/ UNCHANGED vars PROVE HistoryTypes'
  BY StepsCoverNext
<1> USE DEF IInv, vars, flags, locks, sound, song, history,
            TypeOK, HistoryTypes, MaxLate
<1>1. CASE MainStep
  BY <1>1 DEF MainStep, MainEvaluates, MainSleeps, MainStartsWorkers,
         MainJoins, mainOthers
<1>2. CASE ButtonStep
  BY <1>2 DEF ButtonStep, ButtonPolls, ButtonPlays, ButtonFirstPlay,
         ButtonPauses, ButtonResumes, ButtonRequests, ButtonSetsDirection,
         ButtonShuffles
<1>3. CASE LightFetches
  BY <1>3 DEF LightFetches, LightTop, LightLocksPath, LightChooses,
         LightPrepares, LightThrows, lightOthers
<1>4. CASE LightAnnounces
  BY <1>4 DEF LightAnnounces, LightLocksReady, LightSetsReady,
         LightNotifiesReady, lightOthers
<1>5. CASE LightShows
  BY <1>5 DEF LightShows, LightOuter, LightEvaluatesPlay, LightSleeps,
         LightChecks, LightInner, LightDraws, LightLeaves, Asked, lightOthers
<1>6. CASE AudioWaits
  BY <1>6 DEF AudioWaits, AudioTop, AudioLocksReady, AudioEvaluatesReady,
         AudioSleeps, audioOthers
<1>7. CASE AudioPlays
  BY <1>7 DEF AudioPlays, AudioLocksPath, AudioLoads, AudioStarts, AudioPolls,
         AudioResetsRequest, AudioClearsReady, audioOthers
<1>8. CASE SignalArrives
  BY <1>8 DEF SignalArrives, signalOthers
<1>9. CASE SignalStep
  BY <1>9 DEF SignalStep, SignalNotifies, signalOthers
<1>10. CASE SoundEnds
  BY <1>10 DEF SoundEnds
<1>11. CASE SpuriousWakeup
  BY <1>11 DEF SpuriousWakeup
<1>12. CASE UNCHANGED vars
  BY <1>12
<1> QED
  BY <1>1, <1>2, <1>3, <1>4, <1>5, <1>6, <1>7, <1>8, <1>9, <1>10, <1>11, <1>12
     DEF Steps

\* Every step keeps the mutual exclusion on both mutexes.
LEMMA StepMutexes ==
    IInv /\ [Next]_vars => (WorkersOff /\ PathMutex /\ ReadyMutex)'
<1> SUFFICES ASSUME IInv, Steps \/ UNCHANGED vars
             PROVE  (WorkersOff /\ PathMutex /\ ReadyMutex)'
  BY StepsCoverNext
<1> USE DEF IInv, vars, flags, locks, sound, song, history,
            WorkersOff, PathMutex, ReadyMutex
<1>1. CASE MainStep
  BY <1>1 DEF MainStep, MainEvaluates, MainSleeps, MainStartsWorkers,
         MainJoins, mainOthers
<1>2. CASE ButtonStep
  BY <1>2 DEF ButtonStep, ButtonPolls, ButtonPlays, ButtonFirstPlay,
         ButtonPauses, ButtonResumes, ButtonRequests, ButtonSetsDirection,
         ButtonShuffles
<1>3. CASE LightFetches
  BY <1>3 DEF LightFetches, LightTop, LightLocksPath, LightChooses,
         LightPrepares, LightThrows, lightOthers
<1>4. CASE LightAnnounces
  BY <1>4 DEF LightAnnounces, LightLocksReady, LightSetsReady,
         LightNotifiesReady, lightOthers
<1>5. CASE LightShows
  BY <1>5 DEF LightShows, LightOuter, LightEvaluatesPlay, LightSleeps,
         LightChecks, LightInner, LightDraws, LightLeaves, Asked, lightOthers
<1>6. CASE AudioWaits
  BY <1>6 DEF AudioWaits, AudioTop, AudioLocksReady, AudioEvaluatesReady,
         AudioSleeps, audioOthers
<1>7. CASE AudioPlays
  BY <1>7 DEF AudioPlays, AudioLocksPath, AudioLoads, AudioStarts, AudioPolls,
         AudioResetsRequest, AudioClearsReady, audioOthers
<1>8. CASE SignalArrives
  BY <1>8 DEF SignalArrives, signalOthers
<1>9. CASE SignalStep
  BY <1>9 DEF SignalStep, SignalNotifies, signalOthers
<1>10. CASE SoundEnds
  BY <1>10 DEF SoundEnds
<1>11. CASE SpuriousWakeup
  BY <1>11 DEF SpuriousWakeup
<1>12. CASE UNCHANGED vars
  BY <1>12
<1> QED
  BY <1>1, <1>2, <1>3, <1>4, <1>5, <1>6, <1>7, <1>8, <1>9, <1>10, <1>11, <1>12
     DEF Steps

\* Every step keeps the protocol by which a song is handed over.
LEMMA StepHandOver ==
    IInv /\ [Next]_vars => (Announcement /\ PathKnown)'
<1> SUFFICES ASSUME IInv, Steps \/ UNCHANGED vars
             PROVE  (Announcement /\ PathKnown)'
  BY StepsCoverNext
<1> USE DEF IInv, vars, flags, locks, sound, song, history,
            Announcement, ReadyIsNotMissed, PathKnown, ReadyMutex, WorkersOff
<1>1. CASE MainStep
  BY <1>1 DEF MainStep, MainEvaluates, MainSleeps, MainStartsWorkers,
         MainJoins, mainOthers
<1>2. CASE ButtonStep
  BY <1>2 DEF ButtonStep, ButtonPolls, ButtonPlays, ButtonFirstPlay,
         ButtonPauses, ButtonResumes, ButtonRequests, ButtonSetsDirection,
         ButtonShuffles
<1>3. CASE LightFetches
  BY <1>3 DEF LightFetches, LightTop, LightLocksPath, LightChooses,
         LightPrepares, LightThrows, lightOthers
<1>4. CASE LightAnnounces
  BY <1>4 DEF LightAnnounces, LightLocksReady, LightSetsReady,
         LightNotifiesReady, lightOthers
<1>5. CASE LightShows
  BY <1>5 DEF LightShows, LightOuter, LightEvaluatesPlay, LightSleeps,
         LightChecks, LightInner, LightDraws, LightLeaves, Asked, lightOthers
<1>6. CASE AudioWaits
  BY <1>6 DEF AudioWaits, AudioTop, AudioLocksReady, AudioEvaluatesReady,
         AudioSleeps, audioOthers
<1>7. CASE AudioPlays
  <2>1. CASE AudioLocksPath
    BY <2>1 DEF AudioLocksPath, audioOthers
  <2>2. CASE AudioLoads
    BY <2>2 DEF AudioLoads, audioOthers
  <2>3. CASE AudioStarts
    BY <2>3 DEF AudioStarts, audioOthers
  <2>4. CASE AudioPolls
    BY <2>4 DEF AudioPolls, audioOthers
  <2>5. CASE AudioResetsRequest
    BY <2>5 DEF AudioResetsRequest, audioOthers
  <2>6. CASE AudioClearsReady
    BY <2>6 DEF AudioClearsReady, audioOthers
  <2> QED
    BY <1>7, <2>1, <2>2, <2>3, <2>4, <2>5, <2>6 DEF AudioPlays
<1>8. CASE SignalArrives
  BY <1>8 DEF SignalArrives, signalOthers
<1>9. CASE SignalStep
  BY <1>9 DEF SignalStep, SignalNotifies, signalOthers
<1>10. CASE SoundEnds
  BY <1>10 DEF SoundEnds
<1>11. CASE SpuriousWakeup
  BY <1>11 DEF SpuriousWakeup
<1>12. CASE UNCHANGED vars
  BY <1>12
<1> QED
  BY <1>1, <1>2, <1>3, <1>4, <1>5, <1>6, <1>7, <1>8, <1>9, <1>10, <1>11, <1>12
     DEF Steps

\* Every step keeps what is known of the sound and of the frames.
LEMMA StepSound ==
    IInv /\ [Next]_vars => (SoundWatched /\ Lateness /\ FrameExists)'
<1> SUFFICES ASSUME IInv, Steps \/ UNCHANGED vars
             PROVE  (SoundWatched /\ Lateness /\ FrameExists)'
  BY StepsCoverNext
<1> USE DEF IInv, vars, flags, locks, sound, song, history,
            TypeOK, FlagTypes, SongTypes, SoundWatched, Lateness, FrameExists,
            WorkersOff, MaxLate
<1>1. CASE MainStep
  BY <1>1 DEF MainStep, MainEvaluates, MainSleeps, MainStartsWorkers,
         MainJoins, mainOthers
<1>2. CASE ButtonStep
  BY <1>2 DEF ButtonStep, ButtonPolls, ButtonPlays, ButtonFirstPlay,
         ButtonPauses, ButtonResumes, ButtonRequests, ButtonSetsDirection,
         ButtonShuffles
<1>3. CASE LightFetches
  BY <1>3 DEF LightFetches, LightTop, LightLocksPath, LightChooses,
         LightPrepares, LightThrows, lightOthers
<1>4. CASE LightAnnounces
  BY <1>4 DEF LightAnnounces, LightLocksReady, LightSetsReady,
         LightNotifiesReady, lightOthers
<1>5. CASE LightShows
  <2>1. CASE LightOuter
    BY <2>1 DEF LightOuter, lightOthers
  <2>2. CASE LightEvaluatesPlay
    BY <2>2 DEF LightEvaluatesPlay, lightOthers
  <2>3. CASE LightSleeps
    BY <2>3 DEF LightSleeps, lightOthers
  <2>4. CASE LightChecks
    BY <2>4 DEF LightChecks, lightOthers, Asked
  <2>5. CASE LightInner
    BY <2>5, SegmentsAssumption DEF LightInner, lightOthers, Asked
  <2>6. CASE LightDraws
    BY <2>6, SegmentsAssumption DEF LightDraws, lightOthers, HistoryTypes
  <2>7. CASE LightLeaves
    BY <2>7 DEF LightLeaves, lightOthers
  <2> QED
    BY <1>5, <2>1, <2>2, <2>3, <2>4, <2>5, <2>6, <2>7 DEF LightShows
<1>6. CASE AudioWaits
  BY <1>6 DEF AudioWaits, AudioTop, AudioLocksReady, AudioEvaluatesReady,
         AudioSleeps, audioOthers
<1>7. CASE AudioPlays
  <2>1. CASE AudioLocksPath
    BY <2>1 DEF AudioLocksPath, audioOthers
  <2>2. CASE AudioLoads
    BY <2>2 DEF AudioLoads, audioOthers
  <2>3. CASE AudioStarts
    BY <2>3 DEF AudioStarts, audioOthers
  <2>4. CASE AudioPolls
    BY <2>4 DEF AudioPolls, audioOthers
  <2>5. CASE AudioResetsRequest
    BY <2>5 DEF AudioResetsRequest, audioOthers
  <2>6. CASE AudioClearsReady
    BY <2>6 DEF AudioClearsReady, audioOthers
  <2> QED
    BY <1>7, <2>1, <2>2, <2>3, <2>4, <2>5, <2>6 DEF AudioPlays
<1>8. CASE SignalArrives
  BY <1>8 DEF SignalArrives, signalOthers
<1>9. CASE SignalStep
  BY <1>9 DEF SignalStep, SignalNotifies, signalOthers
<1>10. CASE SoundEnds
  BY <1>10 DEF SoundEnds
<1>11. CASE SpuriousWakeup
  BY <1>11 DEF SpuriousWakeup
<1>12. CASE UNCHANGED vars
  BY <1>12
<1> QED
  BY <1>1, <1>2, <1>3, <1>4, <1>5, <1>6, <1>7, <1>8, <1>9, <1>10, <1>11, <1>12
     DEF Steps

\* Every step keeps the invariant.
LEMMA StepIInv == IInv /\ [Next]_vars => IInv'
  BY StepFlagTypes, StepStepTypes, StepSongTypes, StepHistoryTypes, StepMutexes,
     StepHandOver, StepSound DEF IInv, TypeOK

-----------------------------------------------------------------------------
\* The inductive invariant.
THEOREM Invariance == Spec => []IInv
  BY InitIInv, StepIInv, PTL DEF Spec

\* Every variable keeps its type; in particular currentBitIndex never leaves the
\* song (LightWorker.cpp:102-108).
THEOREM TypeCorrectness == Spec => []TypeOK
<1>1. IInv => TypeOK
  BY DEF IInv
<1> QED
  BY <1>1, Invariance, PTL

\* A song that is ready is not slept through (LightWorker.cpp:50-55,
\* AudioWorker.cpp:62-73).
THEOREM HandOver == Spec => []ReadyIsNotMissed
<1>1. IInv => ReadyIsNotMissed
  BY DEF IInv, Announcement
<1> QED
  BY <1>1, Invariance, PTL

\* No file is opened while one is being fetched (currentPathMutex).
THEOREM PathExclusion == Spec => []NoLoadDuringFetch
<1>1. IInv => NoLoadDuringFetch
  BY DEF IInv, PathMutex, NoLoadDuringFetch
<1> QED
  BY <1>1, Invariance, PTL

\* The audio thread opens no empty path.
THEOREM PathBeforeLoad == Spec => []NeverLoadsEmptyPath
<1>1. IInv => NeverLoadsEmptyPath
  BY DEF IInv, PathKnown, NeverLoadsEmptyPath
<1> QED
  BY <1>1, Invariance, PTL

\* The audio thread ends in silence (AudioWorker.cpp:93-103).
THEOREM SilenceAtExit == Spec => []QuietAtExit
<1>1. IInv => QuietAtExit
  BY DEF IInv, SoundWatched, QuietAtExit
<1> QED
  BY <1>1, Invariance, PTL

\* At most one frame is drawn after a pause or a signal (LightWorker.cpp:90).
THEOREM FramesStop == Spec => []AtMostOneLateFrame
<1>1. IInv => AtMostOneLateFrame
  BY DEF IInv, Lateness, AtMostOneLateFrame
<1> QED
  BY <1>1, Invariance, PTL

-----------------------------------------------------------------------------
\* While a press is not acted upon, isSkip is its direction once it is written;
\* after that, it stays what the press said until the next press.
Direction ==
    /\ press = "skip" /\ bpc # "skipDirection" => isSkip
    /\ press = "rewind" /\ bpc # "rewindDirection" => ~isSkip
    /\ bpc = "skipDirection" => press \in {"skip", "none"}
    /\ bpc = "rewindDirection" => press \in {"rewind", "none"}
    /\ press = "none" /\ bpc \notin {"skipDirection", "rewindDirection"} =>
          /\ reason = "skip" => isSkip
          /\ reason = "rewind" => ~isSkip
    /\ press = "none" /\ bpc = "skipDirection" => reason # "rewind"
    /\ press = "none" /\ bpc = "rewindDirection" => reason # "skip"

\* No press has been made at the start.
LEMMA InitDirection == Init => Direction
  BY DEF Init, Direction

\* Every step keeps it: the light thread only takes a press over into reason, and
\* the button thread writes the direction of the press it has raised.
LEMMA StepDirection == IInv /\ Direction /\ [Next]_vars => Direction'
<1> SUFFICES ASSUME IInv, Direction, Steps \/ UNCHANGED vars PROVE Direction'
  BY StepsCoverNext
<1> USE DEF IInv, vars, flags, locks, sound, song, history,
            TypeOK, FlagTypes, HistoryTypes, Direction
<1>1. CASE MainStep
  BY <1>1 DEF MainStep, MainEvaluates, MainSleeps, MainStartsWorkers,
         MainJoins, mainOthers
<1>2. CASE ButtonStep
  <2>1. CASE ButtonPolls \/ ButtonPlays \/ ButtonShuffles
    BY <2>1, ButtonsAssumption DEF ButtonPolls, ButtonPlays, ButtonShuffles, Presses
  <2>2. CASE ButtonFirstPlay
    BY <2>2 DEF ButtonFirstPlay
  <2>3. CASE ButtonPauses
    BY <2>3 DEF ButtonPauses
  <2>4. CASE ButtonResumes
    BY <2>4 DEF ButtonResumes
  <2>5. CASE ButtonRequests
    BY <2>5 DEF ButtonRequests
  <2>6. CASE ButtonSetsDirection
    BY <2>6 DEF ButtonSetsDirection
  <2> QED
    BY <1>2, <2>1, <2>2, <2>3, <2>4, <2>5, <2>6 DEF ButtonStep
<1>3. CASE LightFetches
  BY <1>3 DEF LightFetches, LightTop, LightLocksPath, LightChooses,
         LightPrepares, LightThrows, lightOthers
<1>4. CASE LightAnnounces
  BY <1>4 DEF LightAnnounces, LightLocksReady, LightSetsReady,
         LightNotifiesReady, lightOthers
<1>5. CASE LightShows
  <2>1. CASE LightOuter
    BY <2>1 DEF LightOuter, lightOthers
  <2>2. CASE LightEvaluatesPlay
    BY <2>2 DEF LightEvaluatesPlay, lightOthers
  <2>3. CASE LightSleeps
    BY <2>3 DEF LightSleeps, lightOthers
  <2>4. CASE LightChecks
    BY <2>4 DEF LightChecks, lightOthers, Asked
  <2>5. CASE LightInner
    BY <2>5 DEF LightInner, lightOthers, Asked
  <2>6. CASE LightDraws
    BY <2>6 DEF LightDraws, lightOthers
  <2>7. CASE LightLeaves
    BY <2>7 DEF LightLeaves, lightOthers
  <2> QED
    BY <1>5, <2>1, <2>2, <2>3, <2>4, <2>5, <2>6, <2>7 DEF LightShows
<1>6. CASE AudioWaits
  BY <1>6 DEF AudioWaits, AudioTop, AudioLocksReady, AudioEvaluatesReady,
         AudioSleeps, audioOthers
<1>7. CASE AudioPlays
  <2>1. CASE AudioLocksPath
    BY <2>1 DEF AudioLocksPath, audioOthers
  <2>2. CASE AudioLoads
    BY <2>2 DEF AudioLoads, audioOthers
  <2>3. CASE AudioStarts
    BY <2>3 DEF AudioStarts, audioOthers
  <2>4. CASE AudioPolls
    BY <2>4 DEF AudioPolls, audioOthers
  <2>5. CASE AudioResetsRequest
    BY <2>5 DEF AudioResetsRequest, audioOthers
  <2>6. CASE AudioClearsReady
    BY <2>6 DEF AudioClearsReady, audioOthers
  <2> QED
    BY <1>7, <2>1, <2>2, <2>3, <2>4, <2>5, <2>6 DEF AudioPlays
<1>8. CASE SignalArrives
  BY <1>8 DEF SignalArrives, signalOthers
<1>9. CASE SignalStep
  BY <1>9 DEF SignalStep, SignalNotifies, signalOthers
<1>10. CASE SoundEnds
  BY <1>10 DEF SoundEnds
<1>11. CASE SpuriousWakeup
  BY <1>11 DEF SpuriousWakeup
<1>12. CASE UNCHANGED vars
  BY <1>12
<1> QED
  BY <1>1, <1>2, <1>3, <1>4, <1>5, <1>6, <1>7, <1>8, <1>9, <1>10, <1>11, <1>12
     DEF Steps

\* The light thread chooses in no other step than LightChooses, and by isSkip.
LEMMA StepServes ==
    IInv /\ Direction /\ [Next]_vars =>
        (/\ lpc = "choose" /\ lpc' = "fetch"
         /\ bpc \notin {"skipDirection", "rewindDirection"}
         => /\ Served = "skip" => went' = "next"
            /\ Served = "rewind" => went' = "previous")
<1> SUFFICES ASSUME Direction, Steps \/ UNCHANGED vars,
                    lpc = "choose", lpc' = "fetch"
             PROVE  LightChooses
  BY StepsCoverNext DEF IInv, TypeOK, HistoryTypes, Direction, Served, LightChooses
<1>1. ~UNCHANGED vars
  BY DEF vars
<1>2. ~MainStep /\ ~ButtonStep
  BY DEF MainStep, MainEvaluates, MainSleeps, MainStartsWorkers, MainJoins,
         mainOthers, ButtonStep, ButtonPolls, ButtonPlays, ButtonFirstPlay,
         ButtonPauses, ButtonResumes, ButtonRequests, ButtonSetsDirection,
         ButtonShuffles
<1>3. LightFetches => LightChooses
  BY DEF LightFetches, LightTop, LightLocksPath, LightPrepares, LightThrows
<1>4. ~LightAnnounces /\ ~LightShows
  BY DEF LightAnnounces, LightLocksReady, LightSetsReady, LightNotifiesReady,
         LightShows, LightOuter, LightEvaluatesPlay, LightSleeps, LightChecks,
         LightInner, LightDraws, LightLeaves
<1>5. ~AudioWaits /\ ~AudioPlays
  BY DEF AudioWaits, AudioTop, AudioLocksReady, AudioEvaluatesReady,
         AudioSleeps, AudioPlays, AudioLocksPath, AudioLoads, AudioStarts,
         AudioPolls, AudioResetsRequest, AudioClearsReady, audioOthers
<1>6. ~SignalArrives /\ ~SignalStep /\ ~SoundEnds /\ ~SpuriousWakeup
  BY DEF SignalArrives, SignalStep, SignalNotifies, SoundEnds, SpuriousWakeup
<1> QED
  BY <1>1, <1>2, <1>3, <1>4, <1>5, <1>6 DEF Steps

\* The last press is the one whose direction is taken, for every succession of
\* presses: the request is raised before the direction is written, and still only
\* a choice between the two writes of a press can go another way than the last
\* press says (ButtonWorker.cpp:98-99, 108-109).
THEOREM DirectionKept == Spec => PressServedInDirection
<1>1. Spec => [](IInv /\ Direction)
  BY InitIInv, StepIInv, InitDirection, StepDirection, PTL DEF Spec
<1> QED
  BY <1>1, StepServes, PTL DEF Spec, PressServedInDirection

=============================================================================
