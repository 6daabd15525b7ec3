--------------------------- MODULE ButtonsProofs ---------------------------
(***************************************************************************)
(* The properties of Buttons hold for every chain of at most six distinct  *)
(* buttons and every number of volume steps.  The heart is the patience of *)
(* the chain: the detectors that have seen their line up form a binary     *)
(* counter, and a poll that stops at a line counts it down.                *)
(***************************************************************************)
EXTENDS Buttons, TLAPS

\* An answered press has been recorded; one that is due has not.
Claimed ==
    \A i \in Line : level[i] = 0 =>
        /\ claim[i] = "answered" => lastValue[i] = 0
        /\ claim[i] = "due" => lastValue[i] = 1

\* The polls line j may still take from a line i behind it, by itself.
Share(f, j, i) == IF j < i /\ f[j] = 1 THEN Weight[j] ELSE 0

\* The polls that may still pass line i by, if the detectors are as f says.
Credit(f, i) ==
    Share(f, 1, i) + Share(f, 2, i) + Share(f, 3, i) + Share(f, 4, i) + Share(f, 5, i)

\* A line whose level is not recorded yet, up or down, is recorded in time.
Patience ==
    \A i \in Line :
        level[i] # lastValue[i] => waited[i] + Credit(lastValue, i) < Weight[i]

\* How far the volume is after so many presses in one direction.
Climb == streak > 0 => streak <= volume.tenths \/ volume = Highest
Descent == streak < 0 => volume.tenths - streak <= VolumeSteps \/ volume = Lowest
Settled == bpc = "poll" => volume \in InRange

\* Between two polls the engine has the volume last written, once a volume button
\* was pressed.
Follows == bpc = "poll" /\ streak # 0 => gain = volume

IInv ==
    /\ TypeOK
    /\ Claimed
    /\ Patience
    /\ Climb
    /\ Descent
    /\ Settled
    /\ Follows

---------------------------------------------------------------------------
\* The lines are the numbers up to at most six.
LEMMA LineFacts == Line = 1 .. Len(Lines) /\ Len(Lines) \in 1 .. 6 /\ Line \subseteq 1 .. 6
BY LinesAssumption DEF Line

\* Every line is a button, and NONE is no button.
LEMMA LineNames == (\A i \in Line : Lines[i] \in Buttons) /\ NONE \notin Buttons
BY LinesAssumption DEF Line, Buttons, NONE

\* Every line has a weight.
LEMMA WeightType == \A i \in Line : Weight[i] \in Nat \ {0}
<1>1. \A i \in 1 .. 6 : Weight[i] \in Nat \ {0}
  BY DEF Weight
<1> QED
  BY <1>1, LineFacts

\* What the lines before i can take from it is less than its weight.
LEMMA CreditBound ==
    ASSUME NEW f \in [Line -> {0, 1}], NEW i \in Line
    PROVE  Credit(f, i) \in 0 .. Weight[i] - 1
<1>1. i \in 1 .. 6
  BY LineFacts
<1>2. /\ Share(f, 1, i) \in 0 .. (IF 1 < i THEN 1 ELSE 0)
      /\ Share(f, 2, i) \in 0 .. (IF 2 < i THEN 2 ELSE 0)
      /\ Share(f, 3, i) \in 0 .. (IF 3 < i THEN 4 ELSE 0)
      /\ Share(f, 4, i) \in 0 .. (IF 4 < i THEN 8 ELSE 0)
      /\ Share(f, 5, i) \in 0 .. (IF 5 < i THEN 16 ELSE 0)
  BY <1>1 DEF Share, Weight
<1>3. Weight[i] = IF i = 1 THEN 1 ELSE IF i = 2 THEN 2 ELSE IF i = 3 THEN 4
                  ELSE IF i = 4 THEN 8 ELSE IF i = 5 THEN 16 ELSE 32
  BY <1>1 DEF Weight
<1> QED
  BY <1>1, <1>2, <1>3 DEF Credit

\* A poll that stops at line k takes from the credit of every line behind it,
\* whatever it does to the detectors before k.
LEMMA CreditFalls ==
    ASSUME NEW f \in [Line -> {0, 1}], NEW g \in [Line -> {0, 1}],
           NEW i \in Line, NEW k \in Line,
           k < i, f[k] = 1, g[k] = 0,
           \A j \in Line : k < j => g[j] = f[j]
    PROVE  Credit(g, i) + 1 <= Credit(f, i)
<1>1. i \in 1 .. 6 /\ k \in 1 .. 5 /\ \A j \in 1 .. 5 : j < i => j \in Line
  BY LineFacts
<1>2. \A j \in 1 .. 5 : /\ Share(f, j, i) \in {0, Weight[j]}
                        /\ Share(g, j, i) \in {0, Weight[j]}
                        /\ k < j => Share(g, j, i) = Share(f, j, i)
                        /\ k = j => Share(g, j, i) = 0 /\ Share(f, j, i) = Weight[j]
  BY <1>1 DEF Share
<1>3. Weight[1] = 1 /\ Weight[2] = 2 /\ Weight[3] = 4 /\ Weight[4] = 8 /\ Weight[5] = 16
  BY DEF Weight
<1>4. CASE k = 1
  BY <1>2, <1>3, <1>4 DEF Credit
<1>5. CASE k = 2
  BY <1>2, <1>3, <1>5 DEF Credit
<1>6. CASE k = 3
  BY <1>2, <1>3, <1>6 DEF Credit
<1>7. CASE k = 4
  BY <1>2, <1>3, <1>7 DEF Credit
<1>8. CASE k = 5
  BY <1>2, <1>3, <1>8 DEF Credit
<1> QED
  BY <1>1, <1>4, <1>5, <1>6, <1>7, <1>8

\* The invariant holds in the beginning.
LEMMA InitInv == Init => IInv
<1> SUFFICES ASSUME Init PROVE IInv
  OBVIOUS
<1>1. VolumeSteps \div 2 \in 0 .. VolumeSteps /\ VolumeSteps \in Nat
  BY VolumeAssumption
<1>2. /\ level \in [Line -> {0, 1}] /\ lastValue \in [Line -> {0, 1}]
      /\ waited \in [Line -> Nat] /\ \A i \in Line : waited[i] <= Weight[i]
      /\ claim \in [Line -> Claims]
  BY WeightType DEF Init, Claims
<1>3. TypeOK /\ Claimed
  BY <1>1, <1>2
     DEF Init, TypeOK, Claimed, Volumes, Volume, Rests, InRange, Less, Highest, Lowest
<1>4. Patience
  <2> SUFFICES ASSUME NEW i \in Line, level[i] # lastValue[i]
               PROVE  waited[i] + Credit(lastValue, i) < Weight[i]
    BY DEF Patience
  <2>1. waited[i] = 0
    BY DEF Init
  <2> QED
    BY <1>2, <2>1, CreditBound, WeightType
<1>5. Climb /\ Descent /\ Settled /\ Follows
  BY <1>1 DEF Init, Climb, Descent, Settled, Follows, InRange, Volumes, Volume,
              Rests, Less, Highest, Lowest
<1> QED
  BY <1>3, <1>4, <1>5 DEF IInv

---------------------------------------------------------------------------
\* What a poll that could read does to the detectors and to what is expected.
LEMMA PollKeepsPatience ==
    ASSUME IInv, ReadGPIOs, UNCHANGED level
    PROVE  /\ lastValue' \in [Line -> {0, 1}]
           /\ lastPressedButton' \in Buttons \cup {NONE}
           /\ waited' \in [Line -> Nat]
           /\ \A i \in Line : waited'[i] <= Weight[i]
           /\ claim' \in [Line -> Claims]
           /\ Claimed' /\ Patience'
<1> USE DEF IInv, TypeOK
<1>1. /\ waited' \in [Line -> Nat]
      /\ \A i \in Line : /\ waited'[i] <= Weight[i]
                         /\ waited'[i] <= waited[i] + 1
  BY WeightType DEF ReadGPIOs, Polled
<1>2. CASE \E i \in Line : /\ FirstFalling(i)
                          /\ lastValue' = Recorded(i)
                          /\ lastPressedButton' = Lines[i]
                          /\ claim' = [claim EXCEPT ![i] = "answered"]
  <2> PICK k \in Line : /\ FirstFalling(k)
                        /\ lastValue' = Recorded(k)
                        /\ lastPressedButton' = Lines[k]
                        /\ claim' = [claim EXCEPT ![k] = "answered"]
    BY <1>2
  <2>1. /\ lastValue' \in [Line -> {0, 1}]
        /\ claim' \in [Line -> Claims]
        /\ lastPressedButton' \in Buttons \cup {NONE}
    <3>1. lastValue' \in [Line -> {0, 1}]
      BY DEF Recorded
    <3>2. claim' \in [Line -> Claims]
      <4>1. claim \in [Line -> Claims] /\ "answered" \in Claims
        BY DEF Claims
      <4> QED
        BY <4>1
    <3>3. Lines[k] \in Buttons
      BY LineNames
    <3> QED
      BY <3>1, <3>2, <3>3
  <2>2. level[k] = 0 /\ lastValue[k] = 1 /\ lastValue'[k] = 0
    BY LineFacts DEF FirstFalling, Falling, Recorded
  <2>3. \A j \in Line : lastValue'[j] = IF j <= k THEN level[j] ELSE lastValue[j]
    BY DEF Recorded
  <2>4. \A j \in Line : j < k /\ level[j] = 0 => lastValue[j] = 0
    BY DEF FirstFalling, Falling
  <2>5. Claimed'
    <3> SUFFICES ASSUME NEW i \in Line, level[i] = 0
                 PROVE  /\ claim'[i] = "answered" => lastValue'[i] = 0
                        /\ claim'[i] = "due" => lastValue'[i] = 1
      BY DEF Claimed
    <3>1. CASE i = k
      BY <3>1, <2>2 DEF Claims
    <3>2. CASE i # k
      <4>1. claim'[i] = claim[i] /\ lastValue'[i] = lastValue[i]
        BY <3>2, <2>3, <2>4, LineFacts
      <4> QED
        BY <4>1 DEF Claimed
    <3> QED
      BY <3>1, <3>2
  <2>6. Patience'
    <3> SUFFICES ASSUME NEW i \in Line, level[i] # lastValue'[i]
                 PROVE  waited'[i] + Credit(lastValue', i) < Weight[i]
      BY DEF Patience
    <3>1. i > k /\ lastValue'[i] = lastValue[i]
      BY <2>3, LineFacts
    <3>2. \A j \in Line : k < j => lastValue'[j] = lastValue[j]
      BY <2>3, LineFacts
    <3>3. Credit(lastValue', i) + 1 <= Credit(lastValue, i)
      BY <2>1, <2>2, <3>1, <3>2, CreditFalls
    <3>4. waited[i] + Credit(lastValue, i) < Weight[i]
      BY <3>1 DEF Patience
    <3>5. /\ Credit(lastValue', i) \in Int /\ Credit(lastValue, i) \in Int
          /\ Weight[i] \in Int /\ waited[i] \in Int /\ waited'[i] \in Int
          /\ waited'[i] <= waited[i] + 1
      BY <1>1, <2>1, CreditBound, WeightType
    <3> QED
      BY <3>3, <3>4, <3>5
  <2> QED
    BY <1>1, <2>1, <2>5, <2>6
<1>3. CASE /\ \A i \in Line : ~Falling(i)
           /\ lastValue' = Recorded(Len(Lines))
           /\ lastPressedButton' = NONE
           /\ UNCHANGED claim
  <2>1. lastValue' = level
    BY <1>3, LineFacts DEF Recorded
  <2>2. \A i \in Line : level[i] = 0 => lastValue[i] = 0
    BY <1>3 DEF Falling
  <2>3. Claimed'
    BY <1>3, <2>1, <2>2 DEF Claimed
  <2> QED
    BY <1>1, <1>3, <2>1, <2>3 DEF Patience
<1> QED
  BY <1>2, <1>3 DEF ReadGPIOs

\* Where the switch leaves the volume, whichever press it is given.
LEMMA DispatchKeepsVolume ==
    ASSUME IInv, bpc = "poll", Dispatch
    PROVE  /\ volume' \in Volumes(-1, VolumeSteps + 1)
           /\ streak' \in -(VolumeSteps + 1) .. VolumeSteps + 1
           /\ bpc' \in {"poll", "clamp"}
           /\ Climb' /\ Descent' /\ Settled' /\ Follows'
<1> USE VolumeAssumption DEF IInv, TypeOK, InRange, Volumes, Volume, Rests, Less, Highest, Lowest
<1>1. volume \in InRange /\ UNCHANGED <<level, gain, sound>>
  BY DEF Settled, Dispatch
<1>2. CASE StepVolume(TurnsUp(volume), 1)
  <2>1. volume' \in Volumes(0, VolumeSteps + 1) /\ bpc' = "clamp"
    BY <1>1, <1>2 DEF StepVolume, TurnsUp, Rounded
  <2>2. volume = Highest \/ volume'.tenths = volume.tenths + 1
    BY <1>1, <1>2 DEF StepVolume, TurnsUp, Rounded
  <2>3. volume = Highest => volume' = Highest
    BY <1>2 DEF StepVolume, TurnsUp, Rounded
  <2>4. /\ streak' \in 1 .. VolumeSteps + 1
        /\ \/ streak' = 1
           \/ streak' = streak + 1 /\ streak > 0
           \/ streak' = streak /\ streak = VolumeSteps + 1
    <3>1. streak \in Int /\ 1 * streak = streak
      OBVIOUS
    <3> QED
      BY <1>2, <3>1 DEF StepVolume
  <2>5. Climb'
    BY <1>1, <2>1, <2>2, <2>3, <2>4 DEF Climb
  <2> QED
    BY <2>1, <2>4, <2>5 DEF Descent, Settled, Follows
<1>3. CASE StepVolume(TurnsDown(volume), -1)
  <2>1. volume' \in Volumes(-1, VolumeSteps) /\ bpc' = "clamp"
    BY <1>1, <1>3 DEF StepVolume, TurnsDown, Rounded
  <2>2. volume = Lowest \/ volume'.tenths = volume.tenths - 1
    BY <1>1, <1>3 DEF StepVolume, TurnsDown, Rounded
  <2>3. volume = Lowest => volume' = Lowest
    BY <1>3 DEF StepVolume, TurnsDown, Rounded
  <2>4. /\ streak' \in -(VolumeSteps + 1) .. -1
        /\ \/ streak' = -1
           \/ streak' = streak - 1 /\ streak < 0
           \/ streak' = streak /\ streak = -(VolumeSteps + 1)
    <3>1. streak \in Int /\ (-1) * streak = -streak
      OBVIOUS
    <3> QED
      BY <1>3, <3>1 DEF StepVolume
  <2>5. Descent'
    BY <1>1, <2>1, <2>2, <2>3, <2>4 DEF Descent
  <2> QED
    BY <2>1, <2>4, <2>5 DEF Climb, Settled, Follows
<1>4. CASE UNCHANGED <<volume, streak, bpc>>
  BY <1>1, <1>4 DEF Climb, Descent, Settled, Follows
<1> QED
  BY <1>2, <1>3, <1>4 DEF Dispatch

\* Every step keeps the invariant.
LEMMA NextInv == IInv /\ [Next]_vars => IInv'
<1> SUFFICES ASSUME IInv, [Next]_vars PROVE IInv'
  OBVIOUS
<1> USE DEF IInv
<1>1. ASSUME NEW i \in Line, Press(i) \/ Release(i) PROVE IInv'
  <2>1. /\ UNCHANGED <<lastValue, lastPressedButton, bpc, volume, gain, sound, streak>>
        /\ level' \in [Line -> {0, 1}] /\ waited' \in [Line -> Nat]
        /\ claim' \in [Line -> Claims]
        /\ \A j \in Line \ {i} : /\ level'[j] = level[j] /\ waited'[j] = waited[j]
                                 /\ claim'[j] = claim[j]
        /\ waited'[i] = 0 /\ level'[i] # level[i]
    BY <1>1 DEF Press, Release, TypeOK, volumeVars, Claims
  <2>2. \A j \in Line : waited'[j] <= Weight[j]
    BY <2>1, WeightType DEF TypeOK
  <2>3. level'[i] = 0 => /\ claim'[i] # "answered"
                         /\ claim'[i] = "due" => lastValue[i] = 1
    <3> SUFFICES ASSUME level'[i] = 0
                 PROVE  /\ claim'[i] # "answered"
                        /\ claim'[i] = "due" => lastValue[i] = 1
      OBVIOUS
    <3>1. level[i] = 1 /\ claim'[i] = IF waited[i] = Weight[i] THEN "due" ELSE "doubtful"
      BY <1>1, <2>1 DEF Press, Release, TypeOK
    <3>2. lastValue[i] = 0 => waited[i] + Credit(lastValue, i) < Weight[i]
      BY <3>1 DEF Patience
    <3>3. Credit(lastValue, i) \in Nat /\ Weight[i] \in Nat /\ waited[i] \in Nat
      BY CreditBound, WeightType DEF TypeOK
    <3>4. lastValue[i] = 0 => waited[i] # Weight[i]
      BY <3>2, <3>3
    <3> QED
      BY <3>1, <3>4 DEF TypeOK
  <2>4. Claimed'
    BY <2>1, <2>3 DEF Claimed
  <2>5. Patience'
    <3> SUFFICES ASSUME NEW j \in Line, level'[j] # lastValue[j]
                 PROVE  waited'[j] + Credit(lastValue, j) < Weight[j]
      BY <2>1 DEF Patience
    <3>1. CASE j = i
      <4>1. waited'[j] = 0 /\ lastValue \in [Line -> {0, 1}] /\ Weight[j] \in Nat
        BY <2>1, <3>1, WeightType DEF TypeOK
      <4> QED
        BY <4>1, CreditBound
    <3>2. CASE j # i
      BY <2>1, <3>2 DEF Patience
    <3> QED
      BY <3>1, <3>2
  <2> QED
    BY <2>1, <2>2, <2>4, <2>5 DEF TypeOK, Climb, Descent, Settled, Follows
<1>2. CASE ReadMusicButtons
  <2>1. UNCHANGED <<level, gain, sound>>
    BY <1>2 DEF ReadMusicButtons, Dispatch
  <2> QED
    BY <1>2, <2>1, PollKeepsPatience, DispatchKeepsVolume DEF ReadMusicButtons, TypeOK
<1>3. CASE ReadMusicButtonsBlind
  <2>1. UNCHANGED <<level, gain, sound, lastValue, lastPressedButton, waited, claim>>
    BY <1>3 DEF ReadMusicButtonsBlind, ReadFails, Dispatch
  <2>2. Claimed' /\ Patience'
    BY <2>1 DEF Claimed, Patience
  <2> QED
    BY <1>3, <2>1, <2>2, DispatchKeepsVolume DEF ReadMusicButtonsBlind, TypeOK
<1>4. CASE ApplyVolume
  <2>1. /\ UNCHANGED <<level, lastValue, lastPressedButton, waited, claim, sound, streak>>
        /\ volume' = Clamped(volume) /\ gain' = volume' /\ bpc' = "poll"
    BY <1>4 DEF ApplyVolume, lineVars
  <2>2. volume' \in InRange
    BY <2>1, VolumeAssumption
       DEF TypeOK, Clamped, InRange, Volumes, Volume, Rests, Less, Highest, Lowest
  <2>3. volume' \in Volumes(-1, VolumeSteps + 1)
    BY <2>2, VolumeAssumption DEF InRange, Volumes
  <2>4. Claimed' /\ Patience'
    BY <2>1 DEF Claimed, Patience
  <2>5. Climb' /\ Descent'
    BY <2>1, VolumeAssumption
       DEF TypeOK, Climb, Descent, Clamped, Volumes, Volume, Rests, Less, Highest, Lowest
  <2> QED
    BY <2>1, <2>2, <2>3, <2>4, <2>5 DEF TypeOK, Settled, Follows
<1>5. CASE SongStarts
  BY <1>5 DEF SongStarts, lineVars, TypeOK, Claimed, Patience, Climb, Descent, Settled,
              Follows
<1>6. CASE UNCHANGED vars
  BY <1>6 DEF vars, lineVars, volumeVars, TypeOK, Claimed, Patience, Climb, Descent, Settled, Follows
<1> QED
  BY <1>1, <1>2, <1>3, <1>4, <1>5, <1>6 DEF Next

\* The invariant holds always.
LEMMA Invariance == Spec => []IInv
BY InitInv, NextInv, PTL DEF Spec

---------------------------------------------------------------------------
(* The variables keep their types; the engine is never given a volume out of
   range (ButtonWorker.cpp:123-134, 140-151).                                *)
THEOREM TypeCorrectness == Spec => []TypeOK
<1>1. IInv => TypeOK
  BY DEF IInv
<1> QED
  BY <1>1, Invariance, PTL

(* A press that is due is answered within 2^k polls, k being the number of lines
   tested before its line (readGPIOs, ButtonWorker.cpp:169-183).             *)
THEOREM NobodyStarves == Spec => []HeldPressIsServed
<1>1. IInv => HeldPressIsServed
  <2> SUFFICES ASSUME IInv, NEW i \in Line, level[i] = 0, claim[i] = "due"
               PROVE  waited[i] < Weight[i]
    BY DEF HeldPressIsServed
  <2>1. level[i] # lastValue[i]
    BY DEF IInv, Claimed
  <2>2. Credit(lastValue, i) \in Nat /\ Weight[i] \in Nat /\ waited[i] \in Nat
    BY CreditBound, WeightType DEF IInv, TypeOK
  <2> QED
    BY <2>1, <2>2 DEF IInv, Patience
<1> QED
  BY <1>1, Invariance, PTL

(* A poll that could read acts only on a button that is held and has not been
   answered since it was pressed (EdgeDetector::valueChanged, ButtonWorker.h:22).  *)
THEOREM PressesAnsweredOnce == Spec => OneActionPerPress
<1>1. IInv /\ [Next]_vars
        => [\A i \in Line :
              ReadMusicButtons /\ lastPressedButton' = Lines[i]
                 => level[i] = 0 /\ claim[i] # "answered"]_vars
  <2> SUFFICES ASSUME IInv, ReadMusicButtons, NEW i \in Line, lastPressedButton' = Lines[i]
               PROVE  level[i] = 0 /\ claim[i] # "answered"
    OBVIOUS
  <2>1. Lines[i] \in Buttons /\ NONE \notin Buttons
    BY LineNames
  <2>2. PICK k \in Line : FirstFalling(k) /\ lastPressedButton' = Lines[k]
    BY <2>1 DEF ReadMusicButtons, ReadGPIOs
  <2>3. k = i
    BY <2>2, LinesAssumption DEF Line
  <2> QED
    BY <2>2, <2>3 DEF FirstFalling, Falling, IInv, TypeOK, Claimed
<1> QED
  BY <1>1, Invariance, PTL DEF Spec, OneActionPerPress

(* One press more than there are steps gives full volume or silence to the engine,
   however the additions are rounded (ButtonWorker.cpp:123-134, 140-151).    *)
THEOREM EndsAreReached == Spec => []VolumeReachesEnds
<1>1. ASSUME IInv, bpc = "poll"
      PROVE  /\ streak > VolumeSteps => volume = Highest
             /\ streak < -VolumeSteps => volume = Lowest
  BY <1>1, VolumeAssumption
     DEF IInv, TypeOK, Climb, Descent, Settled, InRange, Volumes, Volume,
         Rests, Less, Highest, Lowest
<1>2. IInv => VolumeReachesEnds
  BY <1>1, VolumeAssumption DEF IInv, TypeOK, Follows, VolumeReachesEnds
<1> QED
  BY <1>2, Invariance, PTL
=============================================================================
