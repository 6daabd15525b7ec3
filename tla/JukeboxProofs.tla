--------------------------- MODULE JukeboxProofs ---------------------------
(***************************************************************************)
(* SongCache implements Jukebox for every number of songs, with and        *)
(* without faults.  The inductive invariant of SongCacheProofs says that a *)
(* fresh slot holds the right song; what is added here is that only faults *)
(* separate the two programs, and only a Rewind whose unsigned subtraction *)
(* misses, possible where NumSongs does not divide 2^SizeTBits, throws the *)
(* list into disorder without one.                                         *)
(***************************************************************************)
EXTENDS JukeboxRefinement, SongCacheProofs

-----------------------------------------------------------------------------
\* What the mapping computes.

\* The slots of the song before, this one and the next.
LEMMA SlotOffsets ==
    ASSUME current_song \in Slots
    PROVE  /\ SlotAt(0) = current_song
           /\ SlotAt(1) = NextSlot
           /\ SlotAt(-1) = PreviousSlot
           /\ {SlotAt(-1), SlotAt(0), SlotAt(1)} \subseteq Slots
           /\ NextSlot # current_song
           /\ PreviousSlot # current_song
           /\ NextSlot # PreviousSlot
  BY DEF SlotAt, Slots, NextSlot, PreviousSlot

\* The place is one of the list, seen from either module.
LEMMA PlaceInIndex ==
    ASSUME TypeOK
    PROVE  /\ Home \in Index
           /\ J!Index = Index
           /\ J!Sounds = Contents
           /\ \A i \in Index : J!After(i) = After(i) /\ J!Before(i) = Before(i)
<1>1. playlist_count \in Index
  BY DEF TypeOK, ServerTypeOK
<1>2. Home \in Index
  BY <1>1, Neighbours DEF Home
<1>3. J!Index = Index /\ J!Sounds = Contents
  BY DEF J!Index, Index, J!Sounds, J!Nothing, Contents, Song, Broken
<1> QED
  BY <1>2, <1>3 DEF J!After, J!Before, After, Before

-----------------------------------------------------------------------------
\* Without faults no request is late and every answer has moved the server.
NothingLost ==
    ~FaultsPossible =>
        /\ late = "none"
        /\ stage = "answered" => moved = (booting = "done")

\* Every step keeps it.
LEMMA StepNothingLost == IInv /\ NothingLost /\ [Next]_vars => NothingLost'
<1> SUFFICES ASSUME IInv, NothingLost, [Next]_vars, ~FaultsPossible
             PROVE  NothingLost'
  BY DEF NothingLost
<1> USE DEF NothingLost
<1>1. CASE \E op \in Ops : Begin(op)
  BY <1>1 DEF Begin
<1>2. CASE Serve
  <2>1. moved' = (booting = "done")
    BY <1>2 DEF Serve, Id
  <2> QED
    BY <1>2, <2>1 DEF Serve
<1>3. CASE Receive
  BY <1>3 DEF Receive, Conclude, CallOver
<1>4. CASE ShufflePlaylist
  BY <1>4 DEF ShufflePlaylist, Outdated
<1>5. CASE ServeLate
  BY <1>5 DEF ServeLate
<1>6. CASE UNCHANGED vars
  BY <1>6 DEF vars, clientVars, callVars
<1> QED
  BY <1>1, <1>2, <1>3, <1>4, <1>5, <1>6
     DEF Next, CannotBegin, ServeError, ResponseCut, RequestLost, ClientRestart,
         ServerRestart

-----------------------------------------------------------------------------
\* Steps that only upset or forget.

\* The opening of a file is a Forget of the song it held.
LEMMA BeginForgets ==
    ASSUME IInv, NEW op \in Ops, Begin(op)
    PROVE  J!Next
<1>1. TypeOK /\ CallShape /\ current_song \in Slots /\ fresh \subseteq Slots
  BY DEF IInv, TypeOK, ClientTypeOK, HistoryTypeOK
<1>2. Target(op) \in Slots /\ slot \in [Slots -> Contents]
  BY <1>1, TargetIsSlot DEF TypeOK, ClientTypeOK
<1>3. PICK o \in -1 .. 1 : Target(op) = SlotAt(o) /\ (o = 0 <=> Target(op) = current_song)
  <2>1. Target(op) \in {SlotAt(-1), SlotAt(0), SlotAt(1)}
    BY <1>1, <1>2 DEF SlotAt, Slots
  <2> QED
    BY <1>1, <2>1, SlotOffsets
<1>4. UNCHANGED <<songs, current_song, booting>> /\ Home' = Home
  BY <1>1 DEF Begin, serverVars, Home, CallShape, Idle
<1>5. SureSongs' = SureSongs \ {o}
  <2>1. \A p \in -1 .. 1 : SlotAt(p)' = SlotAt(p)
    BY <1>4 DEF SlotAt
  <2>2. \A p \in -1 .. 1 : SlotAt(p) = Target(op) <=> p = o
    BY <1>1, <1>3 DEF SlotAt, Slots
  <2>3. fresh' = fresh \ {Target(op)}
    BY DEF Begin
  <2> QED
    BY <2>1, <2>2, <2>3 DEF SureSongs
<1>6. slot' = [slot EXCEPT ![Target(op)] = Broken]
  BY DEF Begin
<1>7. CASE o = 0
  <2>1. booting # "done"
    BY <1>1, <1>3, <1>7 DEF Begin, Target, Moves, Slots
  <2>2. slot'[current_song'] = J!Nothing
    BY <1>1, <1>2, <1>3, <1>4, <1>6, <1>7 DEF J!Nothing, Broken
  <2>3. J!Forget(0)
    BY <1>4, <1>5, <1>7, <2>1, <2>2 DEF J!Forget
  <2> QED
    BY <2>3 DEF J!Next, J!Offsets
<1>8. CASE o # 0
  <2>1. slot'[current_song'] = slot[current_song]
    BY <1>1, <1>2, <1>3, <1>4, <1>6, <1>8
  <2>2. J!Forget(o)
    BY <1>4, <1>5, <1>8, <2>1 DEF J!Forget
  <2> QED
    BY <2>2 DEF J!Next, J!Offsets
<1> QED
  BY <1>7, <1>8

\* After an upset nothing is sure.
LEMMA UpsetIsUnsure == Upset => SureSongs' = {}
  BY DEF Upset, SureSongs

\* A shuffle, a late request and a restarted server leave the file played alone.
LEMMA ServerChangesRefine ==
    ASSUME IInv, IInv', NothingLost,
           ShufflePlaylist \/ ServeLate \/ ServerRestart
    PROVE  J!Next
<1>1. TypeOK /\ TypeOK' /\ SureSongs' = {} /\ UNCHANGED <<slot, current_song, booting>>
  BY UpsetIsUnsure DEF IInv, ShufflePlaylist, ServeLate, ServerRestart
<1>2. Home' \in Index /\ songs' \in [Index -> Index] /\ J!Index = Index
  <2>1. Home' \in Index
    BY <1>1, Neighbours DEF TypeOK, ServerTypeOK, Home, After, Before
  <2>2. songs' \in [Index -> Index]
    BY <1>1 DEF TypeOK, ServerTypeOK, Song
  <2> QED
    BY <1>1, <2>1, <2>2, PlaceInIndex
<1>3. CASE ShufflePlaylist
  <2>1. booting = "done" /\ Home' = Home
    BY <1>3 DEF ShufflePlaylist, HandleShuffle, Outdated, Home, After, Before
  <2>2. J!Shuffle
    BY <1>1, <1>2, <2>1 DEF J!Shuffle
  <2> QED
    BY <2>2 DEF J!Next
<1>4. CASE ServeLate \/ ServerRestart
  <2>1. FaultsPossible
    BY <1>4, FaultsAssumption DEF ServeLate, ServerRestart, NothingLost
  <2>2. J!Disorder
    BY <1>1, <1>2, <2>1 DEF J!Disorder
  <2> QED
    BY <2>2 DEF J!Next
<1> QED
  BY <1>3, <1>4

-----------------------------------------------------------------------------
\* The end of a download.

\* In the start-up it is the Fetch of the song its file is for.
LEMMA StartupFetches ==
    ASSUME IInv, IInv', booting # "done",
           NEW op \in Ops, NEW ok \in BOOLEAN, NEW whole \in BOOLEAN,
           op = booting, ~moved,
           Conclude(op, ok, whole, FALSE),
           UNCHANGED <<songs, playlist_count>>,
           \A s \in Slots \ {Target(op)} : slot'[s] = slot[s]
    PROVE  J!Next
<1>1. /\ TypeOK /\ TypeOK' /\ CallShape
      /\ current_song = 0 /\ current_song' = 0
      /\ fresh \subseteq Slots /\ slot' \in [Slots -> Contents]
      /\ WindowTracksPlaylist'
  BY DEF IInv, CallShape, TypeOK, ClientTypeOK, HistoryTypeOK, Conclude, Switched
<1>2. PICK o \in -1 .. 1 : Target(op) = SlotAt(o) /\ (o = 0 <=> Target(op) = 0)
  <2>1. Target(op) \in {0, 1, 2}
    BY <1>1 DEF Target, Ops, Moves
  <2>2. SlotAt(0) = 0 /\ SlotAt(1) = 1 /\ SlotAt(-1) = 2
    BY <1>1 DEF SlotAt
  <2> QED
    BY <2>1, <2>2
<1>3. SureSongs' \in {SureSongs \ {o}, SureSongs \cup {o}}
  <2>1. \A p \in -1 .. 1 : /\ SlotAt(p)' = SlotAt(p)
                           /\ SlotAt(p) = Target(op) <=> p = o
    BY <1>1, <1>2 DEF SlotAt
  <2>2. CASE whole
    <3>1. fresh' = (fresh \ {Target(op)}) \cup {Target(op)}
      BY <2>2 DEF Conclude
    <3>2. SureSongs' = SureSongs \cup {o}
      BY <2>1, <3>1 DEF SureSongs
    <3> QED
      BY <3>2
  <2>3. CASE ~whole
    <3>1. fresh' = fresh \ {Target(op)}
      BY <2>3 DEF Conclude
    <3>2. SureSongs' = SureSongs \ {o}
      BY <2>1, <3>1 DEF SureSongs
    <3> QED
      BY <3>2
  <2> QED
    BY <2>2, <2>3
<1>4. UNCHANGED songs /\ Home' = Home /\ Home' = playlist_count
  BY DEF Home, Conclude, CallOver
<1>5. slot'[current_song'] \in IF o # 0 THEN {slot[current_song]}
                               ELSE IF 0 \in SureSongs' THEN {songs[Home]}
                               ELSE J!Sounds
  <2>1. CASE o # 0
    BY <1>1, <1>2, <2>1 DEF Slots
  <2>2. CASE o = 0 /\ 0 \in SureSongs'
    <3>1. current_song' \in fresh'
      BY <1>1, <2>2 DEF SureSongs, SlotAt
    <3>2. slot'[current_song'] = Promised(current_song)'
      BY <1>1, <3>1 DEF WindowTracksPlaylist
    <3> QED
      BY <1>1, <1>4, <2>2, <3>2 DEF Promised, NextSlot
  <2>3. CASE o = 0 /\ 0 \notin SureSongs'
    BY <1>1, <2>3, PlaceInIndex DEF Slots
  <2> QED
    BY <2>1, <2>2, <2>3
<1>6. (booting = "done")' \in BOOLEAN
  OBVIOUS
<1>7. J!Fetch(o)
  BY <1>3, <1>4, <1>5, <1>6 DEF J!Fetch
<1> QED
  BY <1>7 DEF J!Next, J!Offsets

\* For getNext and getPrevious it is a Move, or, if the server did not move,
\* the listener is led astray.
LEMMA CallMoves ==
    ASSUME IInv, IInv', NothingLost, booting = "done",
           NEW op \in Moves, NEW ok \in BOOLEAN, NEW whole \in BOOLEAN,
           Conclude(op, ok, whole, moved),
           ~moved => FaultsPossible,
           moved => op = request,
           UNCHANGED <<songs, playlist_count>>,
           \A s \in Slots \ {Target(op)} : slot'[s] = slot[s]
    PROVE  J!Next
<1>1. /\ TypeOK /\ TypeOK'
      /\ current_song \in Slots /\ current_song' \in Slots
      /\ fresh \subseteq Slots /\ slot' \in [Slots -> Contents]
      /\ playlist_count \in Index /\ playlist_count' \in Index
      /\ WindowTracksPlaylist
  BY DEF IInv, TypeOK, ClientTypeOK, HistoryTypeOK, ServerTypeOK
<1>2. UNCHANGED songs /\ Home' = playlist_count /\ booting' = "done"
  BY DEF Home, Conclude, CallOver
<1>3. CASE ~moved
  <2>1. SureSongs' = {}
    BY <1>3, UpsetIsUnsure DEF Conclude
  <2>2. slot'[current_song'] \in J!Sounds /\ Home' \in J!Index
    BY <1>1, <1>2, PlaceInIndex
  <2>3. J!Astray
    BY <1>2, <1>3, <2>1, <2>2 DEF J!Astray
  <2> QED
    BY <2>3 DEF J!Next
<1>4. ASSUME moved, NEW d \in {1, -1}, op = (IF d = 1 THEN "next" ELSE "previous")
      PROVE  J!Move(d)
  <2>1. /\ current_song' = SlotAt(d)
        /\ Target(op) = SlotAt(-d)
        /\ Target(op) # current_song'
        /\ Target(op) # current_song
    BY <1>1, <1>4 DEF Conclude, Switched, Target, SlotAt, Slots
  <2>2. Home' = (IF d = 1 THEN J!After(Home) ELSE J!Before(Home))
    <3>1. Home = (IF d = 1 THEN Before(playlist_count) ELSE After(playlist_count))
      BY <1>4 DEF Home
    <3> QED
      BY <1>1, <1>2, <1>4, <3>1, Neighbours, PlaceInIndex
  <2>3. slot'[current_song'] \in IF d \in SureSongs THEN {songs[Home']} ELSE J!Sounds
    <3>1. slot'[current_song'] = slot[SlotAt(d)]
      BY <1>1, <2>1
    <3>2. CASE d \in SureSongs
      <4>1. slot[SlotAt(d)] = Promised(SlotAt(d))
        BY <1>1, <3>2 DEF SureSongs, WindowTracksPlaylist
      <4>2. Promised(SlotAt(d)) = (IF d = 1 THEN songs[After(Home)]
                                            ELSE songs[Before(Home)])
        BY <1>1, <1>4, SlotOffsets DEF Promised
      <4> QED
        BY <1>1, <1>4, <2>2, <3>1, <3>2, <4>1, <4>2, PlaceInIndex
    <3> QED
      BY <1>1, <3>2, PlaceInIndex
  <2>4. \E more \in SUBSET {d} :
            SureSongs' = {o \in J!Offsets : o + d \in SureSongs} \cup more
    <3>1. \A o \in -1 .. 1 : o + d \in -1 .. 1 => SlotAt(o)' = SlotAt(o + d)
      BY <1>1, <1>4, <2>1 DEF SlotAt, Slots
    <3>2. \A o \in -1 .. 1 : o + d \notin -1 .. 1 <=> o = d
      BY <1>4
    <3>3. SlotAt(d)' = Target(op)
      BY <1>1, <1>4, <2>1 DEF SlotAt, Slots
    <3>4. \A o \in -1 .. 1 : o # d => SlotAt(o)' # Target(op)
      BY <1>1, <1>4, <2>1 DEF SlotAt, Slots
    <3>5. fresh' = (fresh \ {Target(op)}) \cup (IF whole THEN {Target(op)} ELSE {})
      BY <1>4 DEF Conclude
    <3>6. \A o \in -1 .. 1 : o # d =>
              (SlotAt(o)' \in fresh' <=> o + d \in SureSongs)
      BY <3>1, <3>2, <3>4, <3>5 DEF SureSongs
    <3>7. d + d \notin SureSongs
      BY <1>4, <3>2 DEF SureSongs
    <3>8. SureSongs' = {o \in J!Offsets : o + d \in SureSongs}
                           \cup (IF d \in SureSongs' THEN {d} ELSE {})
      BY <1>4, <3>6, <3>7 DEF SureSongs, J!Offsets
    <3> QED
      BY <3>8
  <2> QED
    BY <1>2, <2>2, <2>3, <2>4 DEF J!Move
<1>5. CASE moved /\ op = "next"
  <2>1. J!Move(1)
    BY <1>4, <1>5
  <2> QED
    BY <2>1 DEF J!Next, J!Skip
<1>6. CASE moved /\ op = "previous"
  <2>1. J!Move(-1)
    BY <1>4, <1>6
  <2> QED
    BY <2>1 DEF J!Next, J!Rewind
<1> QED
  BY <1>3, <1>5, <1>6 DEF Moves

-----------------------------------------------------------------------------
\* The cursor, moved back by this step, misses the place before.
CursorMisses ==
    Serve /\ request = "previous" /\ Id = 1 /\ Misses(playlist_count, 1)

\* Otherwise the server's part of a download moves its cursor ahead of the
\* client: to the listener nothing happens.
LEMMA ServingStutters ==
    ASSUME IInv, Serve \/ ServeError, ~CursorMisses
    PROVE  UNCHANGED <<songs, Home, booting = "done", slot[current_song], SureSongs>>
<1>1. /\ TypeOK /\ CallShape /\ playlist_count \in Index /\ moved \in BOOLEAN
      /\ UNCHANGED <<songs, booting, slot, current_song, fresh>>
  BY DEF IInv, TypeOK, ServerTypeOK, CallTypeOK, Serve, ServeError, HandleRequest,
         serverVars, history, CursorMisses
<1>2. Home' = Home
  <2>1. CASE ServeError
    BY <2>1 DEF ServeError, serverVars, Home, After, Before
  <2>2. CASE Serve
    <3>1. /\ ~moved /\ moved' = (Id = 1) /\ UNCHANGED request
          /\ Id \in {0, 1} /\ request \in Ops /\ (Id = 1 => request \in Moves)
      BY <1>1, <2>2 DEF Serve, CallShape, Idle, Id, TypeOK, CallTypeOK
    <3>2. /\ Id = 0 => playlist_count' = playlist_count
          /\ Id = 1 /\ request = "next" => playlist_count' = After(playlist_count)
          /\ Id = 1 /\ request = "previous" => playlist_count' = Before(playlist_count)
      BY <1>1, <2>2, <3>1, HandlerAnswers, WhatIsNotMissed
         DEF Serve, HandleRequest, CursorMisses
    <3> QED
      BY <1>1, <3>1, <3>2, Neighbours DEF Home, Moves
  <2> QED
    BY <2>1, <2>2
<1>3. SureSongs' = SureSongs
  BY <1>1 DEF SureSongs, SlotAt
<1> QED
  BY <1>1, <1>2, <1>3

\* A cursor that misses is a Disorder: the order stays, the place is lost, and
\* nothing is sure until the files have been fetched again.
LEMMA MissingDisorders ==
    ASSUME IInv, IInv', CursorMisses
    PROVE  J!Disorder
<1>1. TypeOK /\ TypeOK' /\ playlist_count \in Index
  BY DEF IInv, TypeOK, ServerTypeOK
<1>2. SizeTResidue # 0
  BY <1>1, WhatIsNotMissed DEF CursorMisses
<1>3. SureSongs' = {} /\ UNCHANGED <<songs, slot, current_song, booting>>
  BY UpsetIsUnsure DEF CursorMisses, Serve, HandleRequest
<1>4. Home' \in J!Index /\ songs' \in [J!Index -> J!Index]
  <2>1. Home' \in Index
    BY <1>1, Neighbours DEF TypeOK, ServerTypeOK, Home, After, Before
  <2>2. songs' \in [Index -> Index]
    BY <1>1 DEF TypeOK, ServerTypeOK, Song
  <2> QED
    BY <1>1, <2>1, <2>2, PlaceInIndex
<1> QED
  BY <1>2, <1>3, <1>4 DEF J!Disorder

\* The initial states are those of the list.
LEMMA InitRefines == Init => J!Init
<1> SUFFICES ASSUME Init PROVE J!Init
  OBVIOUS
<1>1. songs = [i \in J!Index |-> i] /\ Home \in J!Index
  BY DEF Init, original_playlist, Home, J!Index, Index
<1>2. slot[current_song] = J!Nothing
  BY DEF Init, J!Nothing, Broken, Slots
<1>3. SureSongs = {}
  BY DEF Init, SureSongs
<1> QED
  BY <1>1, <1>2, <1>3 DEF Init, J!Init

\* Every step is one of the list or changes nothing there.
LEMMA StepRefines ==
    ASSUME IInv, IInv', NothingLost, [Next]_vars
    PROVE  [J!Next]_J!jukeboxVars
<1> USE DEF serverVars, callVars, clientVars, history
<1>1. /\ CallShape /\ booting \in Ops \cup {"done"}
      /\ ~Idle => IF booting = "done" THEN request \in Moves
                  ELSE request = booting /\ ~moved
      /\ stage # "answered" => ~moved
      /\ moved \in BOOLEAN /\ valid \in BOOLEAN /\ slot \in [Slots -> Contents]
  BY DEF IInv, TypeOK, CallTypeOK, ClientTypeOK, CallShape
<1>2. ASSUME NEW op \in Ops, Begin(op) PROVE J!Next
  BY <1>2, BeginForgets
<1>3. ASSUME NEW op \in Ops, CannotBegin(op) PROVE J!Next
  <2>1. moved = FALSE /\ UNCHANGED <<songs, playlist_count, slot>> /\ FaultsPossible
    BY <1>1, <1>3 DEF CannotBegin, Idle
  <2>2. CASE booting = "done"
    BY <1>3, <2>1, <2>2, CallMoves DEF CannotBegin
  <2>3. CASE booting # "done"
    BY <1>3, <2>1, <2>3, StartupFetches DEF CannotBegin
  <2> QED
    BY <2>2, <2>3
<1>4. CASE Serve \/ ServeError
  <2>1. CASE CursorMisses
    BY <2>1, MissingDisorders DEF J!Next
  <2>2. CASE ~CursorMisses
    BY <1>4, <2>2, ServingStutters DEF J!jukeboxVars
  <2> QED
    BY <2>1, <2>2
<1>5. CASE Receive \/ \E ok \in BOOLEAN : ResponseCut(ok)
  <2>1. PICK ok \in BOOLEAN, whole \in BOOLEAN : Conclude(request, ok, whole, moved)
    BY <1>1, <1>5 DEF Receive, ResponseCut
  <2>2. /\ UNCHANGED <<songs, playlist_count>>
        /\ \A s \in Slots \ {Target(request)} : slot'[s] = slot[s]
        /\ stage = "answered"
    BY <1>1, <1>5 DEF Receive, ResponseCut
  <2>3. CASE booting = "done"
    <3>1. ~moved => FaultsPossible
      BY <2>2, <2>3 DEF NothingLost
    <3> QED
      BY <1>1, <2>1, <2>2, <2>3, <3>1, CallMoves DEF Idle
  <2>4. CASE booting # "done"
    <3>1. request \in Ops /\ request = booting /\ moved = FALSE
      BY <1>1, <2>2, <2>4 DEF Idle
    <3> QED
      BY <2>1, <2>2, <2>4, <3>1, StartupFetches
  <2> QED
    BY <2>3, <2>4
<1>6. CASE RequestLost
  <2>1. moved = FALSE /\ UNCHANGED <<songs, playlist_count, slot>> /\ FaultsPossible
    BY <1>1, <1>6 DEF RequestLost
  <2>2. CASE booting = "done"
    BY <1>1, <1>6, <2>1, <2>2, CallMoves DEF RequestLost, Idle
  <2>3. CASE booting # "done"
    <3>1. request \in Ops /\ request = booting
      BY <1>1, <1>6, <2>3 DEF RequestLost, Idle
    <3> QED
      BY <1>6, <2>1, <2>3, <3>1, StartupFetches DEF RequestLost
  <2> QED
    BY <2>2, <2>3
<1>7. CASE ShufflePlaylist \/ ServeLate \/ ServerRestart
  BY <1>7, ServerChangesRefine
<1>8. CASE ClientRestart
  <2>1. SureSongs' = {} /\ FaultsPossible /\ UNCHANGED songs /\ (booting = "done")' = FALSE
    BY <1>8, UpsetIsUnsure DEF ClientRestart
  <2>2. TypeOK' /\ slot' \in [Slots -> Contents] /\ current_song' \in Slots
    BY DEF IInv, TypeOK, ClientTypeOK
  <2>3. Home' \in J!Index
    BY <2>2, Neighbours DEF TypeOK, ServerTypeOK, Home, After, Before, J!Index, Index
  <2>4. slot'[current_song'] \in J!Sounds
    BY <2>2 DEF J!Sounds, J!Index, J!Nothing, Contents, Song, Index, Broken
  <2>5. J!Astray
    BY <2>1, <2>3, <2>4 DEF J!Astray
  <2> QED
    BY <2>5 DEF J!Next
<1>9. CASE UNCHANGED vars
  BY <1>9 DEF vars, J!jukeboxVars, Home, After, Before, SureSongs, SlotAt
<1> QED
  BY <1>2, <1>3, <1>4, <1>5, <1>6, <1>7, <1>8, <1>9 DEF Next

\* SongCache implements Jukebox: for every number of songs, every width of size_t
\* and every order shuffle() may draw, getNext, getPrevious, shufflePlaylist and
\* the handlers of the server, with every failure and restart the model has, are
\* the Skip, Rewind, Shuffle and upsets of one list.  The unsigned subtraction of
\* the handlers is one of the upsets, never a song in the wrong place.
THEOREM Refinement == Spec => PlaysTheOrder
<1>1. Init => NothingLost
  BY DEF Init, NothingLost
<1>2. IInv /\ IInv' /\ NothingLost /\ [Next]_vars => [J!Next]_J!jukeboxVars
  BY StepRefines
<1>3. IInv /\ NothingLost /\ [Next]_vars => NothingLost'
  BY StepNothingLost
<1> QED
  BY <1>1, <1>2, <1>3, InitRefines, Invariance, PTL
     DEF Spec, PlaysTheOrder, J!Spec

-----------------------------------------------------------------------------
\* What the list promises holds of the files.

\* A step of the list keeps its promise: only a song that was sure before the
\* move is sure after it.
LEMMA ListKeepsPromise ==
    J!SureIsHeard /\ [J!Next]_J!jukeboxVars => J!SureIsHeard'
<1> SUFFICES ASSUME J!SureIsHeard, [J!Next]_J!jukeboxVars PROVE J!SureIsHeard'
  OBVIOUS
<1> DEFINE heard == slot[current_song]
<1> HIDE DEF heard
<1>1. ASSUME NEW o \in J!Offsets, J!Forget(o) PROVE J!SureIsHeard'
  BY <1>1 DEF J!Forget, J!SureIsHeard
<1>2. ASSUME NEW o \in J!Offsets, J!Fetch(o) PROVE J!SureIsHeard'
  BY <1>2 DEF J!Fetch, J!SureIsHeard
<1>3. ASSUME NEW d \in {1, -1}, J!Move(d) PROVE J!SureIsHeard'
  <2> SUFFICES ASSUME 0 \in SureSongs' PROVE d \in SureSongs
    BY <1>3 DEF J!Move, J!SureIsHeard
  <2>1. PICK more \in SUBSET {d} :
           SureSongs' = {o \in J!Offsets : o + d \in SureSongs} \cup more
    BY <1>3 DEF J!Move
  <2> QED
    BY <2>1
<1>4. CASE J!Shuffle \/ J!Disorder \/ J!Astray
  BY <1>4 DEF J!Shuffle, J!Disorder, J!Astray, J!SureIsHeard
<1>5. CASE UNCHANGED J!jukeboxVars
  BY <1>5 DEF J!jukeboxVars, J!SureIsHeard
<1> QED
  BY <1>1, <1>2, <1>3, <1>4, <1>5 DEF J!Next, J!Skip, J!Rewind

\* The song heard is the song of the place whenever it was sure.  Proved of the
\* list, it holds of the files because they implement it.
THEOREM SureSongIsHeard == Spec => []J!SureIsHeard
<1>1. J!Init => J!SureIsHeard
  BY DEF J!Init, J!SureIsHeard
<1>2. Spec => J!Spec
  BY Refinement DEF PlaysTheOrder
<1> QED
  BY <1>1, <1>2, ListKeepsPromise, PTL DEF J!Spec

=============================================================================
