------------------------------ MODULE Jukebox ------------------------------
(***************************************************************************)
(* What the client and the server together promise a listener: a place on  *)
(* an ordered list of songs, moved by Skip and Rewind, and the song heard  *)
(* there.  Files, requests and the three slots do not occur.  The listener *)
(* may count on a song only while it is sure: a neighbour is sure from the *)
(* time it has been fetched until something upsets the order or the place. *)
(***************************************************************************)
EXTENDS Integers

CONSTANTS
    NumSongs,       \* songs on the list
    FaultsPossible  \* whether requests fail, programs restart, places are missed

VARIABLES
    order,    \* the song at each place of the list
    place,    \* the place the listener is at
    started,  \* the listener may press Skip and Rewind
    heard,    \* the song heard there, or Nothing
    sure      \* which songs are certain: -1 the one before, 0 this, 1 the next

jukeboxVars == <<order, place, started, heard, sure>>

Index == 0 .. NumSongs - 1
Nothing == -1
Sounds == Index \cup {Nothing}
Offsets == -1 .. 1

After(i) == (i + 1) % NumSongs
Before(i) == (i + NumSongs - 1) % NumSongs

Init ==
    /\ order = [i \in Index |-> i]
    /\ place \in Index
    /\ started = FALSE
    /\ heard = Nothing
    /\ sure = {}

\* A song is about to be replaced.  Once started it is never the one heard.
Forget(o) ==
    /\ sure' = sure \ {o}
    /\ IF o = 0 THEN ~started /\ heard' = Nothing ELSE heard' = heard
    /\ UNCHANGED <<order, place, started>>

\* A song of the start-up has been fetched, or could not be.
Fetch(o) ==
    /\ ~started
    /\ started' \in BOOLEAN
    /\ sure' \in {sure \ {o}, sure \cup {o}}
    /\ heard' \in IF o # 0 THEN {heard}
                  ELSE IF 0 \in sure' THEN {order[place]} ELSE Sounds
    /\ UNCHANGED <<order, place>>

\* One place on (d = 1) or back (d = -1).  What was sure is still sure, seen
\* from the new place, and the song two places ahead may have become so.
Move(d) ==
    /\ started
    /\ place' = IF d = 1 THEN After(place) ELSE Before(place)
    /\ heard' \in IF d \in sure THEN {order[place']} ELSE Sounds
    /\ \E more \in SUBSET {d} :
           sure' = {o \in Offsets : o + d \in sure} \cup more
    /\ UNCHANGED <<order, started>>

Skip == Move(1)
Rewind == Move(-1)

\* The list is put into another order; the song heard goes on.
Shuffle ==
    /\ started
    /\ order' \in [Index -> Index]
    /\ sure' = {}
    /\ UNCHANGED <<place, started, heard>>

\* The server forgets the order and the place, moves for a press long past, or
\* moves to a place that is not the one before; the song heard goes on.
Disorder ==
    /\ FaultsPossible
    /\ order' \in [Index -> Index]
    /\ place' \in Index
    /\ sure' = {}
    /\ UNCHANGED <<started, heard>>

\* The listener is put somewhere else, or into the start-up again.
Astray ==
    /\ FaultsPossible
    /\ place' \in Index
    /\ started' \in BOOLEAN
    /\ heard' \in Sounds
    /\ sure' = {}
    /\ UNCHANGED order

Next ==
    \/ \E o \in Offsets : Forget(o) \/ Fetch(o)
    \/ Skip
    \/ Rewind
    \/ Shuffle
    \/ Disorder
    \/ Astray

Spec == Init /\ [][Next]_jukeboxVars

-----------------------------------------------------------------------------
\* What is sure is what is heard: as long as the listener may count on this
\* song, it is the one of the place, through every skip, rewind and upset.
SureIsHeard == 0 \in sure => heard = order[place]

=============================================================================
