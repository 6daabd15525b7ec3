-------------------------- MODULE SongCacheProofs --------------------------
(***************************************************************************)
(* The window of SongCache for every number of songs, every width of       *)
(* size_t and every order shuffle() may draw, and when the unsigned        *)
(* subtraction of the server is a step back.                               *)
(***************************************************************************)
EXTENDS SongCache, Arithmetic, TLAPS

-----------------------------------------------------------------------------
\* The range of size_t.

\* The powers of two, as numbers of any size.
TwoTo[b \in Nat] == IF b = 0 THEN 1 ELSE 2 * TwoTo[b - 1]

\* They start with one, double, and are positive.
LEMMA TwoToFacts ==
    /\ TwoTo[0] = 1
    /\ \A b \in Nat : TwoTo[b + 1] = 2 * TwoTo[b]
    /\ \A b \in Nat : TwoTo[b] \in Nat \ {0}
<1>1. TwoTo = CHOOSE p : Doubles(p)
  BY DEF TwoTo, Doubles
<1>2. Doubles(TwoTo)
  BY <1>1, DoublingExists
<1> QED
  BY <1>2, DoublingFacts

\* Doubling a remainder gives the remainder of the double.
LEMMA DoubleResidue ==
    ASSUME NEW x \in Nat, NEW n \in Nat \ {0}
    PROVE  (2 * x) % n = (2 * (x % n)) % n
<1> DEFINE q == x \div n
           r == x % n
<1>1. q \in Int /\ r \in Int /\ x = n * q + r
  BY DivisionYields
<1> HIDE DEF q, r
<1>2. 2 * x = n * (2 * q) + 2 * r /\ 2 * q \in Int /\ 2 * r \in Int
  BY <1>1
<1>3. (2 * x) % n = (2 * r) % n
  BY <1>2, RemainderOfSum
<1> QED
  BY <1>3 DEF r

\* PowerOfTwo holds their remainders.
LEMMA PowerOfTwoIs ==
    ASSUME NEW b \in Nat
    PROVE  PowerOfTwo[b] = TwoTo[b] % NumSongs
<1> DEFINE p == [c \in Nat |-> TwoTo[c] % NumSongs]
           Unrolls(f) == f = [c \in Nat |-> IF c = 0 THEN 1 % NumSongs
                                            ELSE (2 * f[c - 1]) % NumSongs]
<1>1. ASSUME NEW c \in Nat
      PROVE  p[c] = IF c = 0 THEN 1 % NumSongs ELSE (2 * p[c - 1]) % NumSongs
  <2>1. CASE c = 0
    BY <2>1, TwoToFacts
  <2>2. CASE c # 0
    <3>1. PICK d \in Nat : c = d + 1 /\ c - 1 = d
      BY <2>2
    <3>2. TwoTo[c] = 2 * TwoTo[d] /\ TwoTo[d] \in Nat
      BY <3>1, TwoToFacts
    <3>3. TwoTo[c] % NumSongs = (2 * (TwoTo[d] % NumSongs)) % NumSongs
      BY <3>2, DoubleResidue, NumSongsAssumption
    <3> QED
      BY <2>2, <3>1, <3>3
  <2> QED
    BY <2>1, <2>2
<1>2. p = [c \in Nat |-> p[c]]
  OBVIOUS
<1>3. p[b] = TwoTo[b] % NumSongs
  OBVIOUS
<1> HIDE DEF p
<1>4. Unrolls(p)
  BY <1>1, <1>2
<1>5. PowerOfTwo = CHOOSE f : Unrolls(f)
  BY DEF PowerOfTwo
<1>6. Unrolls(PowerOfTwo)
  BY <1>4, <1>5
<1> DEFINE Same == {c \in Nat : PowerOfTwo[c] = p[c]}
<1>7. 0 \in Same
  BY <1>1, <1>6
<1>8. ASSUME NEW c \in Nat, c \in Same PROVE c + 1 \in Same
  <2>1. c + 1 \in Nat /\ c + 1 # 0 /\ c + 1 - 1 = c
    OBVIOUS
  <2>2. PowerOfTwo[c + 1] = (2 * PowerOfTwo[c]) % NumSongs
    BY <1>6, <2>1
  <2>3. p[c + 1] = (2 * p[c]) % NumSongs
    BY <1>1, <2>1
  <2> QED
    BY <1>8, <2>1, <2>2, <2>3
<1> HIDE DEF Same
<1>9. Nat \subseteq Same
  BY <1>7, <1>8, NumberInduction
<1> QED
  BY <1>3, <1>9 DEF Same

\* What stands for 2^SizeTBits is its remainder.
LEMMA ResidueIs == SizeTResidue = TwoTo[SizeTBits] % NumSongs
BY PowerOfTwoIs, SizeTAssumption

\* Backward is what the code computes, (playlist_count - d) % size() with the
\* difference converted to size_t (server/src/main.cpp:146, 170), wherever
\* size_t can hold the number of songs.
THEOREM BackwardIsUnsigned ==
    ASSUME NumSongs <= TwoTo[SizeTBits], 2 <= TwoTo[SizeTBits]
    PROVE  \A i \in Index, d \in {1, 2} :
              Backward(i, d) = ((i - d) % TwoTo[SizeTBits]) % NumSongs
<1> SUFFICES ASSUME NEW i \in Index, NEW d \in {1, 2}
             PROVE  Backward(i, d) = ((i - d) % TwoTo[SizeTBits]) % NumSongs
  OBVIOUS
<1> DEFINE size == TwoTo[SizeTBits]
           k == size \div NumSongs
<1>1. /\ size \in Nat \ {0} /\ NumSongs \in Nat \ {0} /\ NumSongs <= size /\ 2 <= size
      /\ i \in 0 .. NumSongs - 1 /\ SizeTResidue \in Int
  BY TwoToFacts, SizeTAssumption, NumSongsAssumption DEF Index
<1>a. SizeTResidue = size % NumSongs
  BY ResidueIs
<1> HIDE DEF size
<1>2. k \in Int /\ size = NumSongs * k + SizeTResidue
  <2>1. size \in Int
    BY <1>1
  <2> QED
    BY <1>1, <1>a, <2>1, DivisionYields
<1> HIDE DEF k
<1>3. CASE d <= i
  <2>1. i - d \in 0 .. size - 1
    BY <1>1, <1>3
  <2>2. (i - d) % size = i - d
    BY <1>1, <2>1
  <2> QED
    BY <1>3, <2>2 DEF Backward, size
<1>4. CASE ~(d <= i)
  <2>1. size + (i - d) \in 0 .. size - 1 /\ i - d = size * (0 - 1) + (size + (i - d))
    BY <1>1, <1>4
  <2>2. (i - d) % size = size + (i - d)
    BY <1>1, <2>1, RemainderIs
  <2>3. size + (i - d) = NumSongs * k + (SizeTResidue + i - d) /\ SizeTResidue + i - d \in Int
    BY <1>1, <1>2
  <2>4. (size + (i - d)) % NumSongs = (SizeTResidue + i - d) % NumSongs
    <3>1. PICK a \in Int : a = SizeTResidue + i - d
      BY <2>3
    <3>2. (NumSongs * k + a) % NumSongs = a % NumSongs
      BY <1>1, <1>2, RemainderOfSum
    <3> QED
      BY <2>3, <3>1, <3>2
  <2> QED
    BY <1>4, <2>2, <2>4 DEF Backward, size
<1> QED
  BY <1>3, <1>4

\* The remainder is zero if the number of songs is a power of two.
LEMMA PowersDivide ==
    ASSUME NEW k \in Nat, NumSongs = TwoTo[k], k <= SizeTBits
    PROVE  SizeTResidue = 0
<1> DEFINE Good == {c \in Nat : TwoTo[k + c] % NumSongs = 0}
<1>1. 0 \in Good
  <2>1. k + 0 = k /\ NumSongs % NumSongs = 0
    BY NumSongsAssumption
  <2> QED
    BY <2>1
<1>2. ASSUME NEW c \in Nat, c \in Good PROVE c + 1 \in Good
  <2>1. TwoTo[k + c] \in Nat /\ k + c \in Nat /\ k + (c + 1) = k + c + 1
    BY TwoToFacts
  <2>2. TwoTo[k + (c + 1)] = 2 * TwoTo[k + c]
    BY <2>1, TwoToFacts
  <2>3. (2 * TwoTo[k + c]) % NumSongs = (2 * 0) % NumSongs
    BY <1>2, <2>1, DoubleResidue, NumSongsAssumption
  <2>4. (2 * 0) % NumSongs = 0
    BY NumSongsAssumption
  <2> QED
    BY <2>2, <2>3, <2>4
<1> HIDE DEF Good
<1>3. Nat \subseteq Good
  BY <1>1, <1>2, NumberInduction
<1>4. PICK c \in Nat : SizeTBits = k + c
  <2>1. SizeTBits - k \in Nat /\ SizeTBits = k + (SizeTBits - k)
    BY SizeTAssumption
  <2> QED
    BY <2>1
<1> QED
  BY <1>3, <1>4, ResidueIs DEF Good

\* Nor is it zero for any odd number but one.
LEMMA OddDoNotDivide ==
    ASSUME NumSongs % 2 = 1, NumSongs > 1
    PROVE  SizeTResidue # 0
<1> DEFINE Good == {b \in Nat : TwoTo[b] % NumSongs # 0}
<1>1. 0 \in Good
  <2>1. TwoTo[0] = NumSongs * 0 + 1 /\ 1 \in 0 .. NumSongs - 1
    BY TwoToFacts, NumSongsAssumption
  <2>2. TwoTo[0] % NumSongs = 1
    BY <2>1, RemainderIs, NumSongsAssumption
  <2> QED
    BY <2>2
<1>2. ASSUME NEW b \in Nat, b \in Good PROVE b + 1 \in Good
  <2>1. PICK r \in 1 .. NumSongs - 1 : r = TwoTo[b] % NumSongs
    BY <1>2, TwoToFacts, NumSongsAssumption
  <2>2. TwoTo[b + 1] % NumSongs = (2 * r) % NumSongs
    BY <2>1, TwoToFacts, DoubleResidue, NumSongsAssumption
  <2>3. 2 * r # NumSongs
    BY <2>1, NumSongsAssumption
  <2>4. (2 * r) % NumSongs = IF 2 * r < NumSongs THEN 2 * r ELSE 2 * r - NumSongs
    BY <2>1, NumSongsAssumption
  <2> QED
    BY <2>1, <2>2, <2>3, <2>4, NumSongsAssumption
<1> HIDE DEF Good
<1>3. Nat \subseteq Good
  BY <1>1, <1>2, NumberInduction
<1> QED
  BY <1>3, ResidueIs, SizeTAssumption DEF Good

\* The handler for the previous song steps back by one place from everywhere
\* exactly if the remainder is zero, that is, if the number of songs divides the
\* range of size_t: the test "tmp < 0" repairs nothing (main.cpp:146-148).
THEOREM PreviousIsOnePlaceBack ==
    (\A i \in Index : Backward(i, 1) = Before(i)) <=> SizeTResidue = 0
<1>1. ASSUME SizeTResidue = 0, NEW i \in Index PROVE Backward(i, 1) = Before(i)
  BY <1>1, NumSongsAssumption DEF Index, Before, Backward
<1>2. ASSUME Backward(0, 1) = Before(0) PROVE SizeTResidue = 0
  <2>1. SizeTResidue \in 0 .. NumSongs - 1 /\ NumSongs \in Nat \ {0}
    BY SizeTAssumption, NumSongsAssumption DEF Index
  <2>2. Before(0) = NumSongs - 1
    BY <2>1 DEF Before
  <2>3. Backward(0, 1) = IF SizeTResidue = 0 THEN NumSongs - 1 ELSE SizeTResidue - 1
    BY <2>1 DEF Backward
  <2> QED
    BY <1>2, <2>1, <2>2, <2>3
<1>3. 0 \in Index
  BY NumSongsAssumption DEF Index
<1> QED
  BY <1>1, <1>2, <1>3

\* With an odd number of songs, such as the 11 of server/music, some place has the
\* wrong previous one, whatever the width of size_t.
THEOREM OddNumbersWrap ==
    ASSUME NumSongs % 2 = 1, NumSongs > 1
    PROVE  \E i \in Index : Backward(i, 1) # Before(i)
  BY OddDoNotDivide, PreviousIsOnePlaceBack

-----------------------------------------------------------------------------
\* Positions on the playlist.

\* Going one place back undoes going one place on, also around the ends.
LEMMA Neighbours ==
    ASSUME NEW i \in Index
    PROVE  /\ After(i) \in Index
           /\ Before(i) \in Index
           /\ After(Before(i)) = i
           /\ Before(After(i)) = i
  BY NumSongsAssumption DEF Index, After, Before

\* (count + d) % size() is d places on.
LEMMA ForwardPositions ==
    ASSUME NEW i \in Index
    PROVE  /\ Forward(i, 1) = After(i)
           /\ Forward(i, 2) = After(After(i))
           /\ Forward(i, 1) \in Index
           /\ Forward(i, 2) \in Index
  BY NumSongsAssumption DEF Index, After, Forward

\* (count - d) % size() is a position even when the difference wraps.
LEMMA BackwardInIndex ==
    ASSUME NEW i \in Index, NEW d \in {1, 2}
    PROVE  Backward(i, d) \in Index
  BY NumSongsAssumption, SizeTAssumption DEF Index, Backward

\* If NumSongs divides 2^SizeTBits it is also the right one.
LEMMA BackwardPositions ==
    ASSUME SizeTResidue = 0, NEW i \in Index
    PROVE  /\ Backward(i, 1) = Before(i)
           /\ Backward(i, 2) = Before(Before(i))
  BY NumSongsAssumption DEF Index, Before, Backward

\* d places back is the neighbour, or its neighbour.
LEMMA PlacesBack ==
    ASSUME NEW i \in Index
    PROVE  (i - 1) % NumSongs = Before(i) /\ (i - 2) % NumSongs = Before(Before(i))
  BY NumSongsAssumption DEF Index, Before

\* Where two places back is not missed, neither is one.
LEMMA WhatIsNotMissed ==
    ASSUME NEW i \in Index
    PROVE  /\ ~Misses(i, 1) => Backward(i, 1) = Before(i)
           /\ ~Misses(i, 2) => /\ Backward(i, 1) = Before(i)
                               /\ Backward(i, 2) = Before(Before(i))
           /\ SizeTResidue = 0 => ~Misses(i, 1) /\ ~Misses(i, 2)
<1>1. ASSUME ~Misses(i, 2) PROVE Backward(i, 1) = Before(i)
  <2>1. CASE 1 <= i
    BY <2>1, NumSongsAssumption DEF Index, Backward, Before
  <2>2. CASE i = 0
    <3>1. (SizeTResidue - 2) % NumSongs = (-2) % NumSongs
      <4>1. Backward(i, 2) = (SizeTResidue + i - 2) % NumSongs /\ (i - 2) = -2
        BY <2>2 DEF Backward
      <4> QED
        BY <1>1, <2>2, <4>1, SizeTAssumption DEF Misses, Index
    <3>2. /\ SizeTResidue \in 0 .. NumSongs - 1 /\ NumSongs \in Nat \ {0}
      BY SizeTAssumption, NumSongsAssumption DEF Index
    <3>3. PICK p \in Int, q \in Int, r \in 0 .. NumSongs - 1 :
             SizeTResidue - 2 = NumSongs * p + r /\ -2 = NumSongs * q + r
      <4>1. PICK a \in Int, b \in Int : a = SizeTResidue - 2 /\ b = -2
        BY <3>2
      <4>2. PICK p \in Int, q \in Int : /\ a = NumSongs * p + (a % NumSongs)
                                        /\ b = NumSongs * q + (b % NumSongs)
        BY <3>2, DivisionYields
      <4>3. PICK r \in 0 .. NumSongs - 1 : r = a % NumSongs /\ r = b % NumSongs
        <5>1. a % NumSongs = b % NumSongs
          BY <3>1, <4>1
        <5> QED
          BY <3>2, <5>1, DivisionYields
      <4>4. a = NumSongs * p + r /\ b = NumSongs * q + r
        BY <4>2, <4>3
      <4>5. SizeTResidue - 2 = NumSongs * p + r /\ -2 = NumSongs * q + r
        BY <4>1, <4>4
      <4> QED
        BY <4>5
    <3>4. SizeTResidue = NumSongs * (p - q) + 0
      <4>1. SizeTResidue = NumSongs * p - NumSongs * q
        BY <3>2, <3>3
      <4>2. NumSongs * p - NumSongs * q = NumSongs * (p - q)
        BY <3>2
      <4> QED
        BY <3>2, <4>1, <4>2
    <3>5. SizeTResidue % NumSongs = 0
      <4>1. p - q \in Int /\ 0 \in 0 .. NumSongs - 1 /\ SizeTResidue \in Int
        BY <3>2
      <4> QED
        BY <3>2, <3>4, <4>1, RemainderIs
    <3>6. SizeTResidue = 0
      BY <3>2, <3>5
    <3> QED
      BY <3>6, BackwardPositions
  <2> QED
    BY <2>1, <2>2 DEF Index
<1> QED
  BY <1>1, PlacesBack, BackwardPositions DEF Misses

-----------------------------------------------------------------------------
\* What else holds, and makes the window inductive.

\* A download is the one its thread asked for, into a file nothing is claimed
\* of; only getNext and getPrevious move the server.
CallShape ==
    /\ request = "none" <=> stage = "idle"
    /\ ~Idle => /\ IF booting = "done" THEN request \in Moves
                                       ELSE request = booting
              /\ Target(request) \notin fresh
    /\ moved => booting = "done" /\ stage = "answered"
    /\ stage # "answered" => body = Broken
    /\ booting # "done" => current_song = 0

\* A valid answer carries the song its slot will be meant for.
Delivery ==
    stage = "answered" /\ valid /\ body # Broken =>
        /\ request = "current" => body = songs[playlist_count]
        /\ request = "next" => body = songs[After(playlist_count)]
        /\ request = "previous" => body = songs[Before(playlist_count)]

\* A run of one move has filled the slot ahead, of two also the current one.
RunShape ==
    /\ run > 0 => booting = "done" /\ dir \in Moves
    /\ run > 0 /\ (Idle \/ request = dir) =>
           (IF dir = "next" THEN NextSlot ELSE PreviousSlot) \in fresh
    /\ run >= 2 => current_song \in fresh
    /\ run = FullRun /\ Idle => fresh = Slots

IInv ==
    /\ TypeOK /\ CallShape /\ Delivery
    /\ WindowTracksPlaylist /\ RunShape

-----------------------------------------------------------------------------
\* Types.

\* The handlers compute positions of the playlist only.
LEMMA HandlerPositions ==
    ASSUME TypeOK, NEW op \in Ops, NEW id \in {0, 1}
    PROVE  Moved(op, id) \in Index /\ Requested(op, id) \in Index
<1>1. playlist_count \in Index
  BY DEF TypeOK, ServerTypeOK
<1>2. /\ Forward(playlist_count, 1) \in Index
      /\ Forward(playlist_count, 2) \in Index
      /\ Backward(playlist_count, 1) \in Index
      /\ Backward(playlist_count, 2) \in Index
  BY <1>1, ForwardPositions, BackwardInIndex
<1>3. CASE id = 0
  BY <1>1, <1>2, <1>3 DEF Moved, Requested, Ops, Moves
<1>4. CASE id = 1
  BY <1>1, <1>2, <1>4 DEF Moved, Requested, Ops, Moves
<1> QED
  BY <1>3, <1>4

\* A call writes into one of the three files.
LEMMA TargetIsSlot ==
    ASSUME TypeOK, NEW op \in Ops
    PROVE  Target(op) \in Slots
  BY DEF TypeOK, ClientTypeOK, Target, Slots, Ops, Moves

\* The handlers keep the server's types.
LEMMA ServerTypes ==
    ASSUME TypeOK
    PROVE  /\ \A op \in Ops, id \in {0, 1} : HandleRequest(op, id) => ServerTypeOK'
           /\ HandleShuffle => ServerTypeOK'
           /\ StartServer => ServerTypeOK'
<1>1. ASSUME NEW op \in Ops, NEW id \in {0, 1}, HandleRequest(op, id)
      PROVE  ServerTypeOK'
  BY <1>1, HandlerPositions DEF HandleRequest, TypeOK, ServerTypeOK
<1>2. original_playlist \in [Index -> Song]
  BY DEF original_playlist, Song
<1>3. ASSUME HandleShuffle PROVE ServerTypeOK'
  BY <1>2, <1>3, OrdersAssumption DEF HandleShuffle, Orders, TypeOK, ServerTypeOK
<1>4. ASSUME StartServer PROVE ServerTypeOK'
  <2>1. 0 \in Index
    BY NumSongsAssumption DEF Index
  <2> QED
    BY <1>2, <1>4, <2>1 DEF StartServer, ServerTypeOK
<1> QED
  BY <1>1, <1>3, <1>4

\* The end of a call keeps the client's.
LEMMA ConcludeTypes ==
    ASSUME TypeOK, NEW op \in Ops, NEW ok, NEW whole, NEW move,
           booting = "done" => op \in Moves,
           Conclude(op, ok, whole, move),
           slot' \in [Slots -> Contents], late' \in Moves \cup {"none"}
    PROVE  CallTypeOK' /\ ClientTypeOK' /\ HistoryTypeOK'
<1> USE DEF TypeOK, Conclude
<1>1. CallTypeOK'
  BY DEF CallTypeOK, CallOver, Contents
<1>2. ClientTypeOK'
  BY DEF ClientTypeOK, Switched, BootAfter, Ops, Moves, Slots
<1>3. Target(op) \in Slots
  BY TargetIsSlot
<1>4. HistoryTypeOK'
  BY <1>3 DEF HistoryTypeOK, Upset, FullRun
<1> QED
  BY <1>1, <1>2, <1>4

\* So does an upset.
LEMMA UpsetTypes ==
    /\ TypeOK /\ Outdated => CallTypeOK'
    /\ Upset => HistoryTypeOK'
<1>1. TypeOK /\ Outdated => CallTypeOK'
  BY DEF TypeOK, Outdated, CallTypeOK
<1>2. Upset => HistoryTypeOK'
  BY DEF Upset, HistoryTypeOK, FullRun
<1> QED
  BY <1>1, <1>2

\* Every step keeps the types.
LEMMA StepTypeOK == IInv /\ [Next]_vars => TypeOK'
<1> SUFFICES ASSUME TypeOK, CallShape, [Next]_vars PROVE TypeOK'
  BY DEF IInv
<1> USE DEF serverVars, callVars, clientVars, history
<1>a. /\ Id \in {0, 1}
      /\ ~Idle => request \in Ops /\ (booting = "done" => request \in Moves)
  BY DEF Id, Idle, TypeOK, CallTypeOK, CallShape
<1>b. ASSUME UNCHANGED serverVars PROVE ServerTypeOK'
  BY <1>b DEF TypeOK, ServerTypeOK
<1>c. slot \in [Slots -> Contents] /\ late \in Moves \cup {"none"}
  BY DEF TypeOK, ClientTypeOK
<1>1. ASSUME NEW op \in Ops, Begin(op) PROVE TypeOK'
  <2>1. ServerTypeOK'
    BY <1>1, <1>b DEF Begin
  <2>2. CallTypeOK' /\ ClientTypeOK'
    BY <1>1 DEF Begin, TypeOK, CallTypeOK, ClientTypeOK, Contents
  <2>3. HistoryTypeOK'
    BY <1>1 DEF Begin, TypeOK, HistoryTypeOK
  <2> QED
    BY <2>1, <2>2, <2>3 DEF TypeOK
<1>2. ASSUME NEW op \in Ops, CannotBegin(op) PROVE TypeOK'
  <2>1. booting = "done" => op \in Moves
    BY <1>2 DEF CannotBegin
  <2> QED
    BY <2>1, <1>2, <1>b, <1>c, ConcludeTypes DEF CannotBegin, TypeOK
<1>3. CASE Serve
  <2>1. ServerTypeOK'
    BY <1>3, <1>a, ServerTypes DEF Serve, Idle
  <2>2. body' \in Contents
    BY <1>3, <1>a, HandlerPositions
    DEF Serve, Idle, TypeOK, ServerTypeOK, Contents
  <2>3. CallTypeOK' /\ ClientTypeOK' /\ HistoryTypeOK'
    BY <1>3, <2>2, UpsetTypes
    DEF Serve, TypeOK, CallTypeOK, ClientTypeOK, HistoryTypeOK
  <2> QED
    BY <2>1, <2>3 DEF TypeOK
<1>4. CASE ServeError
  BY <1>4, <1>b
  DEF ServeError, TypeOK, CallTypeOK, ClientTypeOK, HistoryTypeOK
<1>5. CASE Receive
  <2>1. slot' \in [Slots -> Contents]
    BY <1>5, <1>c DEF Receive, TypeOK, CallTypeOK
  <2> QED
    BY <2>1, <1>5, <1>a, <1>b, <1>c, ConcludeTypes DEF Receive, Idle, TypeOK
<1>6. ASSUME NEW ok \in BOOLEAN, ResponseCut(ok) PROVE TypeOK'
  BY <1>6, <1>a, <1>b, <1>c, ConcludeTypes DEF ResponseCut, Idle, TypeOK
<1>7. CASE RequestLost
  <2>1. late' \in Moves \cup {"none"}
    BY <1>7, <1>a, <1>c DEF RequestLost, Id, Idle
  <2> QED
    BY <2>1, <1>7, <1>a, <1>b, <1>c, ConcludeTypes DEF RequestLost, Idle, TypeOK
<1>8. CASE ServeLate
  <2>1. ServerTypeOK'
    BY <1>8, <1>c, ServerTypes DEF ServeLate, Ops
  <2>2. CallTypeOK' /\ HistoryTypeOK'
    BY <1>8, UpsetTypes DEF ServeLate
  <2>3. ClientTypeOK'
    BY <1>8 DEF ServeLate, TypeOK, ClientTypeOK
  <2> QED
    BY <2>1, <2>2, <2>3 DEF TypeOK
<1>9. CASE ShufflePlaylist
  <2>1. ServerTypeOK' /\ CallTypeOK' /\ HistoryTypeOK'
    BY <1>9, ServerTypes, UpsetTypes DEF ShufflePlaylist
  <2>2. ClientTypeOK'
    BY <1>9 DEF ShufflePlaylist, TypeOK, ClientTypeOK
  <2> QED
    BY <2>1, <2>2 DEF TypeOK
<1>10. CASE ClientRestart
  <2>1. CallTypeOK' /\ HistoryTypeOK'
    BY <1>10, UpsetTypes DEF ClientRestart, CallOver, CallTypeOK, Contents
  <2>2. ClientTypeOK'
    BY <1>10, <1>a DEF ClientRestart, Id, Idle, TypeOK, ClientTypeOK, Slots, Ops
  <2> QED
    BY <1>10, <1>b, <2>1, <2>2 DEF ClientRestart, TypeOK
<1>11. CASE ServerRestart
  <2>1. ServerTypeOK' /\ CallTypeOK' /\ HistoryTypeOK'
    BY <1>11, ServerTypes, UpsetTypes DEF ServerRestart
  <2>2. ClientTypeOK'
    BY <1>11 DEF ServerRestart, TypeOK, ClientTypeOK
  <2> QED
    BY <2>1, <2>2 DEF TypeOK
<1>12. CASE UNCHANGED vars
  BY <1>12, <1>b
  DEF vars, TypeOK, CallTypeOK, ClientTypeOK, HistoryTypeOK
<1> QED
  BY <1>1, <1>2, <1>3, <1>4, <1>5, <1>6, <1>7, <1>8, <1>9, <1>10, <1>11,
     <1>12 DEF Next

-----------------------------------------------------------------------------
\* The download in progress.

\* The end of a call leaves none in progress.
LEMMA ConcludeCallShape ==
    ASSUME TypeOK, CallShape, NEW op, NEW ok, NEW whole, NEW move,
           Conclude(op, ok, whole, move)
    PROVE  CallShape'
<1>1. ASSUME booting' # "done"
      PROVE  booting # "done" /\ current_song' = current_song
  <2>1. booting # "done"
    BY <1>1 DEF Conclude
  <2> QED
    BY <2>1 DEF Conclude, Switched
<1>2. request' = "none" /\ stage' = "idle" /\ body' = Broken /\ ~moved' /\ valid'
  BY DEF Conclude, CallOver
<1> QED
  BY <1>1, <1>2 DEF CallShape, Idle

\* Every step keeps the shape of the call in progress.
LEMMA StepCallShape == IInv /\ [Next]_vars => CallShape'
<1> SUFFICES ASSUME IInv, [Next]_vars PROVE CallShape'
  OBVIOUS
<1> USE DEF IInv, serverVars, callVars, clientVars, history, TypeOK, ServerTypeOK, CallTypeOK, ClientTypeOK, HistoryTypeOK, CallShape,
            Idle, Ops, Moves, Slots, Target, Switched, Id
<1>1. CASE \E op \in Ops : Begin(op)
  BY <1>1 DEF Begin
<1>2. CASE \E op \in Ops : CannotBegin(op)
  BY <1>2, ConcludeCallShape DEF CannotBegin
<1>3. CASE Serve
  BY <1>3 DEF Serve, HandleRequest, Upset
<1>4. CASE ServeError
  BY <1>4 DEF ServeError
<1>5. CASE Receive
  BY <1>5, ConcludeCallShape DEF Receive
<1>6. CASE \E ok \in BOOLEAN : ResponseCut(ok)
  BY <1>6, ConcludeCallShape DEF ResponseCut
<1>7. CASE RequestLost
  BY <1>7, ConcludeCallShape DEF RequestLost
<1>8. CASE ServeLate
  BY <1>8 DEF ServeLate, HandleRequest, Outdated, Upset
<1>9. CASE ShufflePlaylist
  BY <1>9 DEF ShufflePlaylist, HandleShuffle, Outdated, Upset
<1>10. CASE ClientRestart
  BY <1>10 DEF ClientRestart, CallOver, Upset
<1>11. CASE ServerRestart
  BY <1>11 DEF ServerRestart, StartServer, Outdated, Upset
<1>12. CASE UNCHANGED vars
  BY <1>12 DEF vars, serverVars, callVars, clientVars, history
<1> QED
  BY <1>1, <1>2, <1>3, <1>4, <1>5, <1>6, <1>7, <1>8, <1>9, <1>10, <1>11, <1>12
     DEF Next

-----------------------------------------------------------------------------
\* Seen from where the cursor ends up, the file sent is always the neighbour;
\* backward only where the unsigned subtraction does not miss it.
LEMMA HandlerAnswers ==
    ASSUME TypeOK, NEW op \in Ops, NEW id \in {0, 1}, id = 1 => op \in Moves
    PROVE  /\ op = "current" => Requested(op, id) = Moved(op, id)
           /\ op = "next" => Requested(op, id) = After(Moved(op, id))
           /\ op = "previous" /\ ~Misses(playlist_count, 1 + id) =>
                  Requested(op, id) = Before(Moved(op, id))
           /\ id = 0 => Moved(op, id) = playlist_count
           /\ id = 1 /\ op = "next" => Moved(op, id) = After(playlist_count)
           /\ id = 1 /\ op = "previous" /\ ~Misses(playlist_count, 1) =>
                  Moved(op, id) = Before(playlist_count)
<1>1. playlist_count \in Index
  BY DEF TypeOK, ServerTypeOK
<1>2. /\ Forward(playlist_count, 1) = After(playlist_count)
      /\ Forward(playlist_count, 2) = After(After(playlist_count))
  BY <1>1, ForwardPositions
<1>3. /\ ~Misses(playlist_count, 1) => Backward(playlist_count, 1) = Before(playlist_count)
      /\ ~Misses(playlist_count, 2) =>
            /\ Backward(playlist_count, 1) = Before(playlist_count)
            /\ Backward(playlist_count, 2) = Before(Before(playlist_count))
  BY <1>1, WhatIsNotMissed
<1>4. CASE id = 0
  <2>1. 1 + id = 1
    BY <1>4
  <2> QED
    BY <1>2, <1>3, <1>4, <2>1 DEF Moved, Requested, Ops, Moves
<1>5. CASE id = 1
  <2>1. 1 + id = 2
    BY <1>5
  <2> QED
    BY <1>2, <1>3, <1>5, <2>1 DEF Moved, Requested, Moves
<1> QED
  BY <1>4, <1>5

\* Every step keeps what is known of the answer.
LEMMA StepDelivery == IInv /\ [Next]_vars => Delivery'
<1> SUFFICES ASSUME IInv, [Next]_vars PROVE Delivery'
  OBVIOUS
<1> USE DEF IInv, serverVars, callVars, clientVars, history, TypeOK, ServerTypeOK, CallTypeOK, ClientTypeOK, HistoryTypeOK,
            CallShape, Delivery, Idle, Ops, Moves, Id
<1>1. CASE \E op \in Ops : Begin(op)
  BY <1>1 DEF Begin
<1>2. CASE \E op \in Ops : CannotBegin(op)
  BY <1>2 DEF CannotBegin, Conclude, CallOver, Upset
<1>3. CASE Serve
  BY <1>3, HandlerAnswers DEF Serve, HandleRequest, Upset
<1>4. CASE ServeError
  BY <1>4 DEF ServeError
<1>5. CASE Receive
  BY <1>5 DEF Receive, Conclude, CallOver, Upset
<1>6. CASE \E ok \in BOOLEAN : ResponseCut(ok)
  BY <1>6 DEF ResponseCut, Conclude, CallOver, Upset
<1>7. CASE RequestLost
  BY <1>7 DEF RequestLost, Conclude, CallOver, Upset
<1>8. CASE ServeLate
  BY <1>8 DEF ServeLate, HandleRequest, Outdated, Upset
<1>9. CASE ShufflePlaylist
  BY <1>9 DEF ShufflePlaylist, HandleShuffle, Outdated, Upset
<1>10. CASE ClientRestart
  BY <1>10 DEF ClientRestart, CallOver, Upset
<1>11. CASE ServerRestart
  BY <1>11 DEF ServerRestart, StartServer, Outdated, Upset
<1>12. CASE UNCHANGED vars
  BY <1>12 DEF vars, serverVars, callVars, clientVars, history
<1> QED
  BY <1>1, <1>2, <1>3, <1>4, <1>5, <1>6, <1>7, <1>8, <1>9, <1>10, <1>11, <1>12
     DEF Next

-----------------------------------------------------------------------------
\* The window.

\* The end of a call slides the window by one place, or by none.
LEMMA ConcludeWindow ==
    ASSUME TypeOK, CallShape, WindowTracksPlaylist,
           NEW op, NEW ok, NEW whole, NEW move,
           Conclude(op, ok, whole, move),
           IF booting = "done" THEN op \in Moves ELSE op = booting /\ ~move,
           moved = move, moved => op = request,
           UNCHANGED <<songs, playlist_count>>,
           \A s \in Slots \ {Target(op)} : slot'[s] = slot[s],
           whole => slot'[Target(op)] =
                        CASE op = "next"     -> songs[After(playlist_count)]
                          [] op = "previous" -> songs[Before(playlist_count)]
                          [] OTHER           -> songs[playlist_count]
    PROVE  \A s \in fresh' : slot'[s] = Promised(s)'
<1> SUFFICES ASSUME NEW s \in fresh' PROVE slot'[s] = Promised(s)'
  OBVIOUS
<1>1. Home' = playlist_count
  BY DEF Conclude, CallOver, Home
<1>2. current_song \in Slots /\ fresh \in SUBSET Slots /\ playlist_count \in Index
  BY DEF TypeOK, ClientTypeOK, HistoryTypeOK, ServerTypeOK
<1>a. op \in Ops /\ Target(op) \in Slots
  BY TargetIsSlot DEF TypeOK, ClientTypeOK, Ops
<1>3. s \in Slots /\ (s = Target(op) => whole) /\ (s # Target(op) => s \in fresh)
  BY <1>2, <1>a DEF Conclude, Upset
<1>4. s # Target(op) => slot'[s] = Promised(s)
  BY <1>3, <1>2 DEF WindowTracksPlaylist
<1>5. CASE booting # "done"
  <2>1. Home = playlist_count /\ current_song' = 0 /\ current_song = 0
    BY <1>5 DEF Home, Conclude, Switched, CallShape
  <2>2. NextSlot = 1 /\ NextSlot' = 1
    BY <2>1 DEF NextSlot
  <2>3. Promised(s)' = Promised(s)
    BY <1>1, <2>1, <2>2 DEF Promised, After, Before
  <2>4. CASE s # Target(op)
    BY <1>4, <2>3, <2>4
  <2>5. CASE s = Target(op)
    <3>1. slot'[s] = CASE op = "next"     -> songs[After(playlist_count)]
                       [] op = "previous" -> songs[Before(playlist_count)]
                       [] OTHER           -> songs[playlist_count]
      BY <1>3, <2>5
    <3>2. CASE op = "current"
      BY <1>5, <2>1, <2>2, <2>3, <2>5, <3>1, <3>2 DEF Promised, Target
    <3>3. CASE op = "next"
      BY <1>5, <2>1, <2>2, <2>3, <2>5, <3>1, <3>3 DEF Promised, Target
    <3>4. CASE op = "previous"
      BY <1>5, <2>1, <2>2, <2>3, <2>5, <3>1, <3>4 DEF Promised, Target
    <3> QED
      BY <1>a, <3>2, <3>3, <3>4 DEF Ops, Moves
  <2> QED
    BY <2>4, <2>5
<1>6. CASE booting = "done" /\ op = "next"
  <2>1. move /\ Home = Before(playlist_count)
    BY <1>6 DEF Home, Conclude, Upset
  <2>2. After(Home) = playlist_count
    BY <1>2, <2>1, Neighbours
  <2>3. current_song' = (current_song + 1) % 3 /\ Target(op) = (current_song + 2) % 3
    BY <1>6 DEF Conclude, Switched, Target
  <2> QED
    BY <1>1, <1>2, <1>3, <1>4, <1>6, <2>1, <2>2, <2>3
    DEF Promised, NextSlot, PreviousSlot, Slots
<1>7. CASE booting = "done" /\ op = "previous"
  <2>1. move /\ Home = After(playlist_count)
    BY <1>7 DEF Home, Conclude, Upset
  <2>2. Before(Home) = playlist_count
    BY <1>2, <2>1, Neighbours
  <2>3. current_song' = (current_song + 2) % 3 /\ Target(op) = (current_song + 1) % 3
    BY <1>7 DEF Conclude, Switched, Target
  <2> QED
    BY <1>1, <1>2, <1>3, <1>4, <1>7, <2>1, <2>2, <2>3
    DEF Promised, NextSlot, PreviousSlot, Slots
<1> QED
  BY <1>5, <1>6, <1>7 DEF Moves

\* Every step keeps the window.
LEMMA StepWindow == IInv /\ [Next]_vars => WindowTracksPlaylist'
<1> SUFFICES ASSUME IInv, [Next]_vars
             PROVE  \A s \in fresh' : slot'[s] = Promised(s)'
  BY DEF WindowTracksPlaylist
<1> USE DEF serverVars, callVars, clientVars, history
<1>a. TypeOK /\ CallShape /\ Delivery /\ WindowTracksPlaylist
  BY DEF IInv
<1>b. /\ current_song \in Slots /\ fresh \in SUBSET Slots
      /\ playlist_count \in Index
      /\ slot \in [Slots -> Contents]
      /\ moved \in BOOLEAN
  BY <1>a DEF TypeOK, ServerTypeOK, CallTypeOK, ClientTypeOK, HistoryTypeOK
<1>c. \A s \in fresh : slot[s] = Promised(s)
  BY <1>a DEF WindowTracksPlaylist
<1>d. ~Idle => IF booting = "done" THEN request \in Moves
                                   ELSE request = booting /\ ~moved
  BY <1>a DEF CallShape
<1>e. stage # "answered" => ~moved
  BY <1>a, <1>b DEF CallShape
<1>f. Upset => \A s \in fresh' : slot'[s] = Promised(s)'
  BY DEF Upset
<1>1. ASSUME NEW op \in Ops, Begin(op)
      PROVE  \A s \in fresh' : slot'[s] = Promised(s)'
  <2>1. ~moved /\ ~moved'
    BY <1>1, <1>e, <1>b DEF Begin, Idle
  <2>2. \A s : Promised(s)' = Promised(s)
    BY <1>1, <2>1 DEF Begin, Promised, Home, NextSlot, PreviousSlot
  <2>3. \A s \in fresh' : s \in fresh /\ slot'[s] = slot[s]
    BY <1>1, <1>b DEF Begin
  <2> QED
    BY <1>c, <2>2, <2>3
<1>2. ASSUME NEW op \in Ops, CannotBegin(op)
      PROVE  \A s \in fresh' : slot'[s] = Promised(s)'
  <2>1. ~moved
    BY <1>2, <1>e DEF CannotBegin, Idle
  <2>2. moved = FALSE
    BY <2>1, <1>b
  <2> QED
    BY <1>2, <1>a, <1>b, <2>2, ConcludeWindow DEF CannotBegin
<1>3. CASE Serve
  <2> SUFFICES ASSUME ~(request = "previous" /\ Id = 1 /\ Misses(playlist_count, 1))
               PROVE  \A s \in fresh' : slot'[s] = Promised(s)'
    BY <1>3, <1>f DEF Serve
  <2>1. /\ ~moved /\ moved' = (booting = "done")
        /\ request \in Ops /\ (Id = 1 => request \in Moves) /\ Id \in {0, 1}
        /\ (Id = 1) = (booting = "done")
    BY <1>3, <1>a, <1>b, <1>e
    DEF Serve, Idle, CallShape, TypeOK, CallTypeOK, ClientTypeOK, Id
  <2>2. /\ Id = 0 => playlist_count' = playlist_count
        /\ Id = 1 /\ request = "next" => playlist_count' = After(playlist_count)
        /\ Id = 1 /\ request = "previous" =>
               playlist_count' = Before(playlist_count)
    BY <1>3, <1>a, <2>1, HandlerAnswers DEF Serve, HandleRequest
  <2>3. Home' = Home
    BY <1>3, <1>b, <2>1, <2>2, Neighbours DEF Serve, Home, Moves
  <2>4. \A s : Promised(s)' = Promised(s)
    BY <1>3, <2>3
    DEF Serve, HandleRequest, Promised, NextSlot, PreviousSlot, After, Before
  <2> QED
    BY <1>3, <1>c, <2>4 DEF Serve
<1>4. CASE ServeError
  BY <1>4, <1>c DEF ServeError, Promised, Home, NextSlot, PreviousSlot
<1>5. CASE Receive
  <2>1. ASSUME valid, body # Broken
        PROVE  slot'[Target(request)] =
                   CASE request = "next"     -> songs[After(playlist_count)]
                     [] request = "previous" -> songs[Before(playlist_count)]
                     [] OTHER                -> songs[playlist_count]
    <3>1. Target(request) \in Slots
      BY <1>5, <1>a, <1>d, TargetIsSlot
      DEF Receive, Idle, TypeOK, ClientTypeOK, Ops
    <3>2. slot'[Target(request)] = body
      BY <1>5, <1>b, <3>1 DEF Receive
    <3>3. request \in {"current", "next", "previous"}
      BY <1>5, <1>a, <1>d
      DEF Receive, Idle, Moves, Ops, TypeOK, ClientTypeOK
    <3> QED
      BY <1>5, <1>a, <2>1, <3>2, <3>3 DEF Receive, Delivery
  <2>2. \A s \in Slots \ {Target(request)} : slot'[s] = slot[s]
    BY <1>5, <1>b DEF Receive
  <2> QED
    BY <1>5, <1>a, <1>b, <1>d, <2>1, <2>2, ConcludeWindow DEF Receive, Idle
<1>6. ASSUME NEW ok \in BOOLEAN, ResponseCut(ok)
      PROVE  \A s \in fresh' : slot'[s] = Promised(s)'
  BY <1>6, <1>a, <1>d, ConcludeWindow DEF ResponseCut, Idle
<1>7. CASE RequestLost
  <2>1. moved = FALSE
    BY <1>7, <1>b, <1>e DEF RequestLost
  <2> QED
    BY <1>7, <1>a, <1>d, <2>1, ConcludeWindow DEF RequestLost, Idle
<1>8. CASE ServeLate \/ ShufflePlaylist \/ ClientRestart \/ ServerRestart
  BY <1>8, <1>f DEF ServeLate, ShufflePlaylist, ClientRestart, ServerRestart
<1>9. CASE UNCHANGED vars
  BY <1>9, <1>c DEF vars, Promised, Home, NextSlot, PreviousSlot
<1> QED
  BY <1>1, <1>2, <1>3, <1>4, <1>5, <1>6, <1>7, <1>8, <1>9 DEF Next

\* Every step keeps what a run of moves has filled.
LEMMA StepRunShape == IInv /\ [Next]_vars => RunShape'
<1> SUFFICES ASSUME IInv, [Next]_vars PROVE RunShape'
  OBVIOUS
<1> USE DEF IInv, serverVars, callVars, clientVars, history, TypeOK, ServerTypeOK, CallTypeOK, ClientTypeOK, HistoryTypeOK, CallShape,
            RunShape, NextSlot, PreviousSlot, Idle, Ops, Moves,
            Slots, FullRun, Target, Switched, Id
<1>1. CASE \E op \in Ops : Begin(op)
  BY <1>1 DEF Begin
<1>2. CASE \E op \in Ops : CannotBegin(op)
  BY <1>2 DEF CannotBegin, Conclude, CallOver, Upset
<1>3. CASE Serve
  BY <1>3 DEF Serve, HandleRequest, Upset
<1>4. CASE ServeError
  BY <1>4 DEF ServeError
<1>5. CASE Receive
  BY <1>5 DEF Receive, Conclude, CallOver, Upset
<1>6. CASE \E ok \in BOOLEAN : ResponseCut(ok)
  BY <1>6 DEF ResponseCut, Conclude, CallOver, Upset
<1>7. CASE RequestLost
  BY <1>7 DEF RequestLost, Conclude, CallOver, Upset
<1>8. CASE ServeLate
  BY <1>8 DEF ServeLate, HandleRequest, Outdated, Upset
<1>9. CASE ShufflePlaylist
  BY <1>9 DEF ShufflePlaylist, HandleShuffle, Outdated, Upset
<1>10. CASE ClientRestart
  BY <1>10 DEF ClientRestart, CallOver, Upset
<1>11. CASE ServerRestart
  BY <1>11 DEF ServerRestart, StartServer, Outdated, Upset
<1>12. CASE UNCHANGED vars
  BY <1>12 DEF vars, serverVars, callVars, clientVars, history
<1> QED
  BY <1>1, <1>2, <1>3, <1>4, <1>5, <1>6, <1>7, <1>8, <1>9, <1>10, <1>11, <1>12
     DEF Next

-----------------------------------------------------------------------------
\* Everything together.

\* The program starts in the invariant: all files are Broken and none is fresh.
LEMMA InitIInv == Init => IInv
<1> SUFFICES ASSUME Init PROVE IInv
  OBVIOUS
<1>1. TypeOK
  <2>1. ServerTypeOK
    BY DEF Init, ServerTypeOK, original_playlist, Song
  <2>2. CallTypeOK
    BY DEF Init, CallTypeOK, Contents
  <2>3. current_song \in Slots /\ slot \in [Slots -> Contents]
    BY DEF Init, Slots, Contents
  <2>4. ClientTypeOK
    BY <2>3 DEF Init, ClientTypeOK, Ops
  <2>5. HistoryTypeOK
    BY DEF Init, HistoryTypeOK, FullRun
  <2> QED
    BY <2>1, <2>2, <2>4, <2>5 DEF TypeOK
<1>2. CallShape /\ Delivery /\ WindowTracksPlaylist /\ RunShape
  BY DEF Init, CallShape, Idle, Delivery, WindowTracksPlaylist, RunShape, FullRun
<1> QED
  BY <1>1, <1>2 DEF IInv

\* Every step keeps the invariant.
LEMMA StepIInv == IInv /\ [Next]_vars => IInv'
  BY StepTypeOK, StepCallShape, StepDelivery, StepWindow, StepRunShape DEF IInv

\* The inductive invariant holds throughout.
THEOREM Invariance == Spec => []IInv
  BY InitIInv, StepIInv, PTL DEF Spec

\* The playlist, the download and the files have their types in every state: in
\* particular the cursor and every position a handler computes name a song,
\* whatever the width of size_t makes of the unsigned subtraction.
THEOREM TypeCorrectness == Spec => []TypeOK
<1>1. IInv => TypeOK
  BY DEF IInv
<1> QED
  BY <1>1, Invariance, PTL

\* The three files are a window on the playlist: a file that arrived whole since
\* the last upset holds the song at, before or after the place being played,
\* for every number of songs, also one and two, and every width of size_t.
THEOREM Window == Spec => []WindowTracksPlaylist
<1>1. IInv => WindowTracksPlaylist
  BY DEF IInv
<1> QED
  BY <1>1, Invariance, PTL

\* After an upset two moves in one direction repair the file being played, and
\* three repair all of them; also after a Rewind that missed the place before.
THEOREM Healing == Spec => []HealsAfterMoves
<1>1. IInv => HealsAfterMoves
  <2> SUFFICES ASSUME IInv
               PROVE  /\ run >= 2 => slot[current_song] = songs[Home]
                      /\ run = FullRun /\ Idle =>
                             \A s \in Slots : slot[s] = Promised(s)
    BY DEF HealsAfterMoves
  <2>1. \A s \in fresh : slot[s] = Promised(s)
    BY DEF IInv, WindowTracksPlaylist
  <2>2. run >= 2 => current_song \in fresh
    BY DEF IInv, RunShape
  <2>3. Promised(current_song) = songs[Home]
    <3>1. current_song \in {0, 1, 2}
      BY DEF IInv, TypeOK, ClientTypeOK, Slots
    <3> QED
      BY <3>1 DEF Promised, NextSlot
  <2>4. run = FullRun /\ Idle => fresh = Slots
    BY DEF IInv, RunShape
  <2> QED
    BY <2>1, <2>2, <2>3, <2>4
<1> QED
  BY <1>1, Invariance, PTL

\* A download never touches the file being played nor the one it switches to.
THEOREM PlayedFileIsSpared == Spec => DownloadSparesPlayed
<1> DEFINE Spared == booting = "done" =>
                         /\ slot'[current_song] = slot[current_song]
                         /\ slot'[current_song'] = slot[current_song']
<1>1. ASSUME IInv, [Next]_vars PROVE [Spared]_vars
  <2> USE DEF serverVars, callVars, clientVars
  <2> SUFFICES ASSUME booting = "done", Next PROVE Spared
    BY <1>1
  <2>a. /\ current_song \in Slots /\ slot \in [Slots -> Contents]
        /\ ~Idle => request \in Moves
    BY <1>1 DEF IInv, TypeOK, ClientTypeOK, CallShape
  <2>b. ASSUME NEW op \in Moves
        PROVE  Target(op) # current_song /\ Target(op) # Switched(op)
    BY <2>a DEF Slots, Target, Switched, Moves
  <2>1. ASSUME NEW op \in Ops, Begin(op) PROVE Spared
    BY <2>1, <2>a, <2>b DEF Begin
  <2>2. CASE Receive
    BY <2>2, <2>a, <2>b DEF Receive, Idle, Conclude
  <2>3. CASE slot' = slot
    BY <2>3
  <2> QED
    BY <2>1, <2>2, <2>3
    DEF Next, CannotBegin, Serve, ServeError, ResponseCut, RequestLost,
        ServeLate, ShufflePlaylist, ClientRestart, ServerRestart
<1> QED
  BY <1>1, Invariance, PTL DEF Spec, DownloadSparesPlayed

\* With a number of songs that divides the range of size_t, and while every file
\* can be opened, the comments of the handler are true: the song before the
\* cursor is sent, and the cursor steps back by one (main.cpp:143, 168).
THEOREM PreviousIsRight ==
    ASSUME SizeTResidue = 0, ~FaultsPossible
    PROVE  Spec => PreviousIsBefore
<1> DEFINE Right ==
        stage = "sent" /\ stage' = "answered" /\ request = "previous" =>
            IF Id = 0
            THEN body' = songs[Before(playlist_count)] /\ UNCHANGED playlist_count
            ELSE /\ body' = songs[Before(Before(playlist_count))]
                 /\ playlist_count' = Before(playlist_count)
<1>1. ASSUME IInv, [Next]_vars PROVE [Right]_vars
  <2> SUFFICES ASSUME stage = "sent", stage' = "answered", request = "previous", Next
               PROVE  Right
    BY <1>1
  <2>1. Serve
    BY DEF Next, Begin, CannotBegin, ServeError, Receive, ResponseCut, RequestLost, Conclude,
           CallOver, ServeLate, ShufflePlaylist, ServerRestart, ClientRestart, Outdated, Idle
  <2>2. /\ playlist_count' = Moved("previous", Id)
        /\ body' = songs[Requested("previous", Id)]
        /\ Id \in {0, 1}
    BY <2>1 DEF Serve, HandleRequest, Id
  <2>3. /\ Backward(playlist_count, 1) = Before(playlist_count)
        /\ Backward(playlist_count, 2) = Before(Before(playlist_count))
    BY <1>1, BackwardPositions DEF IInv, TypeOK, ServerTypeOK
  <2>4. /\ Requested("previous", Id) = Backward(playlist_count, 1 + Id)
        /\ Moved("previous", Id) = IF Id = 1 THEN Backward(playlist_count, 1) ELSE playlist_count
    BY DEF Requested, Moved
  <2>5. CASE Id = 0
    BY <2>2, <2>3, <2>4, <2>5
  <2>6. CASE Id = 1
    BY <2>2, <2>3, <2>4, <2>6
  <2> QED
    BY <2>2, <2>5, <2>6
<1> QED
  BY <1>1, Invariance, PTL DEF Spec, PreviousIsBefore

=============================================================================
