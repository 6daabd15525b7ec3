------------------------------ MODULE Buttons ------------------------------
(* The button thread (client/src/ButtonWorker.cpp): every tenth of a second it
   reads all lines at once, takes at most one press from them, and acts upon
   it.  What Play, Skip, Rewind and Shuffle do next is the matter of Playback
   and SongCache; here they are presses like any other.  The two volume buttons
   are followed to what is heard, because the volume is applied twice: to the
   engine at a press, to a sound when the audio thread starts it.

   A line is its place in the chain of tests of readGPIOs.  The button thread
   is at "poll" between two polls, and at "clamp" between the two assignments
   to the plain float StatusVars::volume, which the audio thread reads.      *)
EXTENDS Integers, Sequences

CONSTANTS
    Lines,        \* the buttons, in the order in which readGPIOs tests them
    VolumeSteps   \* presses from silence to full volume: ten in the code

Buttons == {"PLAYPAUSE", "SKIPSONG", "REWIND", "SHUFFLE", "VOLUMEUP", "VOLUMEDOWN"}
NONE == "NONE"

ASSUME LinesAssumption ==
    /\ Lines \in Seq(Buttons)
    /\ Len(Lines) \in 1 .. 6
    /\ \A i, j \in DOMAIN Lines : Lines[i] = Lines[j] => i = j
ASSUME VolumeAssumption == VolumeSteps \in Nat \ {0}

Line == DOMAIN Lines

(* The polls after which every poll has looked at a line: 2^k, if k lines are
   tested before it.                                                         *)
Weight == <<1, 2, 4, 8, 16, 32>>

(* A float near a multiple of 0.1: how many tenths, and on which side of them
   it came to lie.  An addition of 0.1 may be rounded either way.            *)
Volume(t, r) == [tenths |-> t, rest |-> r]
Rests == {-1, 0, 1}
Volumes(low, high) == [tenths : low .. high, rest : Rests]

Highest == Volume(VolumeSteps, 0)
Lowest == Volume(0, 0)

Less(v, w) ==
    \/ v.tenths < w.tenths
    \/ v.tenths = w.tenths /\ v.rest < w.rest

InRange == {v \in Volumes(0, VolumeSteps) : ~Less(v, Lowest) /\ ~Less(Highest, v)}

VARIABLES
    level,               \* what the lines carry: 0 while a button is held
    lastValue,           \* EdgeDetector::lastValue of each line
    lastPressedButton,   \* the press found by the last poll that could read
    bpc,                 \* where the button thread is
    volume,              \* StatusVars::volume
    gain,                \* volume of the engine
    sound,               \* volume of the song that plays
    waited,              \* history: polls since a line changed, up to its Weight
    claim,               \* history: what a held button may expect
    streak               \* history: volume presses in one direction, down < 0

lineVars == <<level, lastValue, lastPressedButton, waited, claim>>
volumeVars == <<volume, gain, sound, streak>>
vars == <<lineVars, bpc, volumeVars>>

(* A press is due an answer if the line was up for long enough before it.  After
   a shorter release it is doubtful: if the detector has not seen the line up,
   the press is never noticed, however long the button is held.              *)
Claims == {"due", "doubtful", "answered"}

(* Before the first song nothing is heard.  A button held when the program starts
   is not a press, unless the first reading fails: then the detectors start from
   1, and it counts as one.                                                  *)
Init ==
    /\ level \in [Line -> {0, 1}]
    /\ \/ lastValue = level /\ claim = [i \in Line |-> "answered"]
       \/ /\ lastValue = [i \in Line |-> 1]
          /\ claim = [i \in Line |-> IF level[i] = 0 THEN "due" ELSE "answered"]
    /\ waited = [i \in Line |-> IF level[i] = 1 THEN Weight[i] ELSE 0]
    /\ lastPressedButton = NONE
    /\ bpc = "poll"
    /\ volume = Volume(VolumeSteps \div 2, 0)
    /\ gain = Highest
    /\ sound = Lowest
    /\ streak = 0

---------------------------------------------------------------------------
Press(i) ==
    /\ level[i] = 1
    /\ level' = [level EXCEPT ![i] = 0]
    /\ waited' = [waited EXCEPT ![i] = 0]
    /\ claim' = [claim EXCEPT ![i] = IF waited[i] = Weight[i] THEN "due" ELSE "doubtful"]
    /\ UNCHANGED <<lastValue, lastPressedButton, bpc, volumeVars>>

Release(i) ==
    /\ level[i] = 0
    /\ level' = [level EXCEPT ![i] = 1]
    /\ waited' = [waited EXCEPT ![i] = 0]
    /\ claim' = [claim EXCEPT ![i] = "answered"]
    /\ UNCHANGED <<lastValue, lastPressedButton, bpc, volumeVars>>

FallingWhileHeld(i) == level[i] = 0   \* mutant: the last value is not compared
Falling(i) == level[i] # lastValue[i] /\ level[i] = 0

\* The chain of else-ifs stops at the first edge.
FirstFalling(i) == Falling(i) /\ \A j \in Line : j < i => ~Falling(j)

\* The detectors after a poll that stopped at line i.
RecordedAll(i) == level   \* mutant: every detector is updated at every poll
Recorded(i) == [j \in Line |-> IF j <= i THEN level[j] ELSE lastValue[j]]

Polled(i) == IF waited[i] < Weight[i] THEN waited[i] + 1 ELSE waited[i]

ReadGPIOs ==
    /\ \/ \E i \in Line :
             /\ FirstFalling(i)
             /\ lastValue' = Recorded(i)
             /\ lastPressedButton' = Lines[i]
             /\ claim' = [claim EXCEPT ![i] = "answered"]
       \/ /\ \A i \in Line : ~Falling(i)
          /\ lastValue' = Recorded(Len(Lines))
          /\ lastPressedButton' = NONE
          /\ UNCHANGED claim
    /\ waited' = [i \in Line |-> Polled(i)]

\* The ioctl failed: the press of an earlier poll is still there.
ReadFails == UNCHANGED <<lastValue, lastPressedButton, waited, claim>>

TurnsUpTooLittle(v) ==    \* mutant: the limit is one step too low
    IF v.tenths < VolumeSteps - 1 THEN v.tenths + 1 ELSE v.tenths
TurnsUp(v) == IF Less(v, Highest) THEN v.tenths + 1 ELSE v.tenths
TurnsDown(v) == IF Less(Lowest, v) THEN v.tenths - 1 ELSE v.tenths

Rounded(v, t) ==
    IF t = v.tenths THEN {v} ELSE {Volume(t, r) : r \in Rests}

ClampedNever(v) == v      \* mutant: the second test is missing
Clamped(v) ==
    IF Less(Highest, v) THEN Highest ELSE IF Less(v, Lowest) THEN Lowest ELSE v

StepVolume(t, way) ==
    /\ volume' \in Rounded(volume, t)
    /\ streak' = IF way * streak > 0
                 THEN IF way * streak > VolumeSteps THEN streak ELSE streak + way
                 ELSE way
    /\ bpc' = "clamp"

\* The switch over the press just read.
Dispatch ==
    /\ \/ lastPressedButton' = "VOLUMEUP" /\ StepVolume(TurnsUp(volume), 1)
       \/ lastPressedButton' = "VOLUMEDOWN" /\ StepVolume(TurnsDown(volume), -1)
       \/ /\ lastPressedButton' \notin {"VOLUMEUP", "VOLUMEDOWN"}
          /\ UNCHANGED <<volume, streak, bpc>>
    /\ UNCHANGED <<level, gain, sound>>

ReadMusicButtons == bpc = "poll" /\ ReadGPIOs /\ Dispatch
ReadMusicButtonsBlind == bpc = "poll" /\ ReadFails /\ Dispatch

ApplyVolume ==
    /\ bpc = "clamp"
    /\ volume' = Clamped(volume)
    /\ gain' = volume'
    /\ bpc' = "poll"
    /\ UNCHANGED <<lineVars, sound, streak>>

\* The audio thread starts a song, at whatever the volume then is.
SongStarts ==
    /\ sound' = volume
    /\ UNCHANGED <<lineVars, bpc, volume, gain, streak>>

Next ==
    \/ \E i \in Line : Press(i) \/ Release(i)
    \/ ReadMusicButtons
    \/ ReadMusicButtonsBlind
    \/ ApplyVolume
    \/ SongStarts

Spec == Init /\ [][Next]_vars

---------------------------------------------------------------------------
(* Every variable has its type.  The shared volume, and a song started between
   its two assignments, may be one step out of range, the engine never: it is
   given what was clamped (ButtonWorker.cpp:123-134, 140-151).               *)
TypeOK ==
    /\ level \in [Line -> {0, 1}]
    /\ lastValue \in [Line -> {0, 1}]
    /\ lastPressedButton \in Buttons \cup {NONE}
    /\ bpc \in {"poll", "clamp"}
    /\ volume \in Volumes(-1, VolumeSteps + 1)
    /\ gain \in InRange
    /\ sound \in Volumes(-1, VolumeSteps + 1)
    /\ waited \in [Line -> Nat]
    /\ \A i \in Line : waited[i] <= Weight[i]
    /\ claim \in [Line -> Claims]
    /\ streak \in -(VolumeSteps + 1) .. VolumeSteps + 1

(* The chain of else-ifs takes one press a poll and the first lines first, yet
   it starves nobody who lets go for long enough: the k lines before a line stop
   at most 2^k - 1 polls in a row before it, because a line that was served must
   be seen released, in a poll that found nothing before it, before it can be
   served again.  So after 2^k polls the release of a button is known, and a
   press that follows is answered within the next 2^k polls.  A press after a
   shorter release may be lost (readGPIOs, ButtonWorker.cpp:169-183).        *)
HeldPressIsServed ==
    \A i \in Line : level[i] = 0 /\ claim[i] = "due" => waited[i] < Weight[i]

(* As long as the ioctl succeeds, a button acts only while it is held, and once
   for a press: neither holding it nor the presses of other buttons, which keep
   a detector from being updated, make it act again
   (EdgeDetector::valueChanged, ButtonWorker.h:22).                          *)
OneActionPerPress ==
    [][\A i \in Line :
          ReadMusicButtons /\ lastPressedButton' = Lines[i]
             => level[i] = 0 /\ claim[i] # "answered"]_vars

(* However the additions of 0.1 are rounded, one press more than there are
   steps reaches the end exactly, the engine has been given it, and from there
   nothing changes any more: whatever a song was started at, Volume down ends in
   silence (ButtonWorker.cpp:123-134, 140-151).                              *)
VolumeReachesEnds ==
    bpc = "poll" =>
        /\ streak > VolumeSteps => volume = Highest /\ gain = Highest
        /\ streak < -VolumeSteps => volume = Lowest /\ gain = Lowest

\* What is heard: the engine multiplies the volume of the sound by its own.
Loudness == gain.tenths * sound.tenths

(* A press on "Volume up" does not make a playing song quieter: "Volume is not
   at its highest", "Turn volume up" (Diagrammer/SD/4_change_volume.puml:19-20).
   The code violates it at the first press: the engine starts at 1.0 and is
   then given 0.6, while the sound keeps what it was started with, the 0.5 from
   before the press, or the 0.6 if it started between the two assignments
   (AudioWorker.cpp:89, ButtonWorker.cpp:123-133).                           *)
VolumeUpIsNotQuieter ==
    [][ApplyVolume /\ lastPressedButton = "VOLUMEUP" => Loudness' >= Loudness]_vars
=============================================================================
