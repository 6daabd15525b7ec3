----------------------------- MODULE SongCache -----------------------------
(***************************************************************************)
(* The three song files a client keeps (class ServerComs,                  *)
(* client/src/server_coms.cpp) against the playlist of the server they are *)
(* copied from.  One call downloads one file over the network; the server  *)
(* answers it in one step, and between the steps of a call the Shuffle     *)
(* button, a restart of either program or a fault may intervene.           *)
(*                                                                         *)
(* A file holds a song or is Broken: truncated, incomplete, or the text of *)
(* an error page saved as if it were a song.                               *)
(***************************************************************************)
EXTENDS PlaylistServer

CONSTANT FaultsPossible  \* FALSE: no fault and no restart of either program

ASSUME FaultsAssumption == FaultsPossible \in BOOLEAN

VARIABLES
    current_song,  \* ServerComs::current_song
    slot,          \* the contents of the files ServerComs::songs names
    request,       \* the download in progress, or "none"
    stage,         \* how far it is: "idle", "sent", "answered"
    body,          \* what the answer carries
    moved,         \* the server moved its cursor for it
    valid,         \* history: the answer is the song meant, and still is
    booting,       \* the step of clientStartup, "done" once it has returned
    late,          \* a request the client gave up on, still on its way
    fresh,         \* history: slots filled whole since the last upset
    run,           \* history: successful moves in one direction since then
    dir            \* history: the direction of that run

callVars == <<request, stage, body, moved, valid>>
clientVars == <<current_song, slot, callVars, booting, late>>
history == <<fresh, run, dir>>
vars == <<serverVars, clientVars, history>>

Slots == 0 .. 2
Broken == -1
Contents == Song \cup {Broken}
Moves == {"next", "previous"}
Ops == Moves \cup {"current"}
FullRun == 3  \* bound of run: three moves refill the three slots

CallTypeOK ==
    /\ request \in Ops \cup {"none"}
    /\ stage \in {"idle", "sent", "answered"}
    /\ body \in Contents
    /\ moved \in BOOLEAN
    /\ valid \in BOOLEAN

ClientTypeOK ==
    /\ current_song \in Slots
    /\ slot \in [Slots -> Contents]
    /\ booting \in Ops \cup {"done"}
    /\ late \in Moves \cup {"none"}

HistoryTypeOK ==
    /\ fresh \in SUBSET Slots
    /\ run \in 0 .. FullRun
    /\ dir \in Moves \cup {"none"}

TypeOK == ServerTypeOK /\ CallTypeOK /\ ClientTypeOK /\ HistoryTypeOK

\* The server may have been playing for another client before this one starts.
Init ==
    /\ songs = original_playlist
    /\ playlist_count \in Index
    /\ shuffled = FALSE
    /\ current_song = 0
    /\ slot = [s \in Slots |-> Broken]
    /\ request = "none" /\ stage = "idle" /\ body = Broken
    /\ moved = FALSE /\ valid = TRUE
    /\ booting = "current"
    /\ late = "none"
    /\ fresh = {}
    /\ run = 0
    /\ dir = "none"

-----------------------------------------------------------------------------
\* The parameter of the request: clientStartup only looks, getNext and
\* getPrevious also move the cursor.
Id == IF booting = "done" THEN 1 ELSE 0

\* Mutant: getNext downloads into the slot it then switches to.
TargetIsSwitchedTo(op) ==
    CASE booting = "current"  -> 0
      [] booting = "next"     -> 1
      [] booting = "previous" -> 2
      [] booting = "done"     -> IF op = "next" THEN (current_song + 1) % 3
                                                ELSE (current_song + 2) % 3

\* The file a call overwrites.
Target(op) ==
    CASE booting = "current"  -> 0
      [] booting = "next"     -> 1
      [] booting = "previous" -> 2
      [] booting = "done"     -> IF op = "next" THEN (current_song + 2) % 3
                                                ELSE (current_song + 1) % 3

\* Mutant: getPrevious does not switch.
SwitchedForwardOnly(op) ==
    IF booting = "done" /\ op = "next" THEN (current_song + 1) % 3
                                        ELSE current_song

\* The slot that becomes current when the call is over.
Switched(op) ==
    IF booting = "done"
    THEN IF op = "next" THEN (current_song + 1) % 3 ELSE (current_song + 2) % 3
    ELSE current_song

BootAfter(step) ==
    CASE step = "current" -> "next"
      [] step = "next"    -> "previous"
      [] OTHER            -> "done"

\* Whatever the files hold, no claim is made about them any more.
Upset ==
    /\ fresh' = {}
    /\ run' = 0
    /\ dir' = "none"

\* No download in progress.
Idle == stage = "idle"

CallOver ==
    /\ request' = "none" /\ stage' = "idle" /\ body' = Broken
    /\ moved' = FALSE /\ valid' = TRUE

\* What follows a download: clientStartup stops at its first failure, while
\* getNext and getPrevious switch to the neighbouring slot in any case.
\* A move the server did not make upsets the correspondence.
Conclude(op, ok, whole, move) ==
    /\ CallOver
    /\ current_song' = Switched(op)
    /\ booting' = IF booting = "done" \/ ~ok THEN "done" ELSE BootAfter(booting)
    /\ IF booting = "done" /\ ~move
       THEN Upset
       ELSE /\ fresh' = (fresh \ {Target(op)}) \cup
                        (IF whole THEN {Target(op)} ELSE {})
            /\ IF booting = "done" /\ whole
               THEN /\ run' = IF dir # op THEN 1
                              ELSE IF run < FullRun THEN run + 1 ELSE run
                    /\ dir' = op
               ELSE run' = 0 /\ dir' = "none"

-----------------------------------------------------------------------------
\* curl_easy_init succeeds, the file is opened (and so emptied), and the
\* request leaves.
Begin(op) ==
    /\ Idle
    /\ IF booting = "done" THEN op \in Moves ELSE op = booting
    /\ slot' = [slot EXCEPT ![Target(op)] = Broken]
    /\ fresh' = fresh \ {Target(op)}
    /\ request' = op
    /\ stage' = "sent"
    /\ UNCHANGED <<serverVars, current_song, body, moved, valid, booting, late,
                   run, dir>>

\* curl_easy_init or the opening of the file fails: the file is not touched.
CannotBegin(op) ==
    /\ FaultsPossible
    /\ Idle
    /\ IF booting = "done" THEN op \in Moves ELSE op = booting
    /\ Conclude(op, FALSE, FALSE, FALSE)
    /\ UNCHANGED <<serverVars, slot, late>>

\* The server handles the request.  The answer is not the song the client means
\* it to be if the position of it misses; if the cursor misses its neighbour, the
\* files no longer stand around the cursor.
Serve ==
    /\ stage = "sent"
    /\ HandleRequest(request, Id)
    /\ stage' = "answered"
    /\ body' = songs[Requested(request, Id)]
    /\ moved' = (Id = 1)
    /\ valid' = ~(request = "previous" /\ Misses(playlist_count, 1 + Id))
    /\ IF request = "previous" /\ Id = 1 /\ Misses(playlist_count, 1)
       THEN Upset
       ELSE UNCHANGED history
    /\ UNCHANGED <<current_song, slot, request, booting, late>>

\* The server cannot open the file: status 500, and the cursor stays.
ServeError ==
    /\ FaultsPossible
    /\ stage = "sent"
    /\ stage' = "answered"
    /\ UNCHANGED <<serverVars, current_song, slot, request, body, moved, valid,
                   booting, late, history>>

\* The whole answer is in the file.  The status is not looked at: an error
\* page is CURLE_OK too.
Receive ==
    /\ stage = "answered"
    /\ slot' = [slot EXCEPT ![Target(request)] = body]
    /\ Conclude(request, TRUE, valid /\ body # Broken, moved)
    /\ UNCHANGED <<serverVars, late>>

\* The answer is cut short, by the network (not CURLE_OK) or by a full disk
\* (write_callback claims every byte, so CURLE_OK).
ResponseCut(ok) ==
    /\ FaultsPossible
    /\ stage = "answered"
    /\ Conclude(request, ok, FALSE, moved)
    /\ UNCHANGED <<serverVars, slot, late>>

\* The connection fails before an answer; the request may still arrive.
RequestLost ==
    /\ FaultsPossible
    /\ stage = "sent"
    /\ Conclude(request, FALSE, FALSE, FALSE)
    /\ late' \in {late} \cup (IF Id = 1 THEN {request} ELSE {})
    /\ UNCHANGED <<serverVars, slot>>

\* The answer in flight, if there is one, belongs to the order or the position
\* from before the upset.
Outdated ==
    /\ valid' = (valid /\ stage # "answered")
    /\ UNCHANGED <<request, stage, body, moved>>

\* A request that was given up on reaches the server after all.
ServeLate ==
    /\ late # "none"
    /\ HandleRequest(late, 1)
    /\ late' = "none"
    /\ Outdated
    /\ Upset
    /\ UNCHANGED <<current_song, slot, booting>>

\* The Shuffle button, on the button thread, at any point of a download.
\* shufflePlaylist posts the request and touches none of the files.
ShufflePlaylist ==
    /\ booting = "done"
    /\ HandleShuffle
    /\ Outdated
    /\ Upset
    /\ UNCHANGED <<current_song, slot, booting, late>>

\* The client is stopped and started again: the files stay on its disk.
ClientRestart ==
    /\ FaultsPossible
    /\ CallOver
    /\ current_song' = 0
    /\ booting' = "current"
    /\ late' \in {late} \cup
                 (IF stage = "sent" /\ Id = 1 THEN {request} ELSE {})
    /\ Upset
    /\ UNCHANGED <<serverVars, slot>>

\* The server is stopped and started again: order and cursor are lost.
ServerRestart ==
    /\ FaultsPossible
    /\ StartServer
    /\ Outdated
    /\ Upset
    /\ UNCHANGED <<current_song, slot, booting, late>>

Next ==
    \/ \E op \in Ops : Begin(op) \/ CannotBegin(op)
    \/ Serve
    \/ ServeError
    \/ Receive
    \/ \E ok \in BOOLEAN : ResponseCut(ok)
    \/ RequestLost
    \/ ServeLate
    \/ ShufflePlaylist
    \/ ClientRestart
    \/ ServerRestart

Spec == Init /\ [][Next]_vars

-----------------------------------------------------------------------------
\* The neighbours of a position on the playlist.
After(i) == (i + 1) % NumSongs
Before(i) == (i + NumSongs - 1) % NumSongs

\* The position of the song the client is on.  Between the server's answer and
\* the end of the call the server is one move ahead.
Home ==
    IF moved
    THEN IF request = "next" THEN Before(playlist_count) ELSE After(playlist_count)
    ELSE playlist_count

NextSlot == (current_song + 1) % 3
PreviousSlot == (current_song + 2) % 3

\* The song a slot is meant to hold.
Promised(s) ==
    CASE s = current_song -> songs[Home]
      [] s = NextSlot     -> songs[After(Home)]
      [] OTHER            -> songs[Before(Home)]

\* The three files are a window on the playlist: every file that arrived whole
\* since the last upset (a shuffle, a move only one side made, a restart) holds
\* the song that stands at, before or after the place being played, whatever
\* mixture of next, previous and failed downloads came in between
\* (ServerComs::getNext, getPrevious and the handlers of /get_next_song and
\* /get_previous_song use matching offsets).  An upset is a shuffle, a restart, a
\* move only one side made, and a Rewind whose unsigned subtraction misses the
\* place before, as it does at the start of the 11 songs of server/music; a file
\* is not counted as whole if only the position of its song was missed.
WindowTracksPlaylist == \A s \in fresh : slot[s] = Promised(s)

\* After an upset the window repairs itself: two moves in one direction and the
\* file being played is the song the server's cursor is on; three, and at rest
\* all three files are right.  Nothing in the code resynchronises; this is the
\* effect of fetching two places ahead into the slot that is left over.  It also
\* ends the detour of a Rewind that missed, whatever the number of songs.
HealsAfterMoves ==
    /\ run >= 2 => slot[current_song] = songs[Home]
    /\ run = FullRun /\ Idle => \A s \in Slots : slot[s] = Promised(s)

\* Once started, a step never changes the file of the song being played nor
\* that of the song it switches to: getNext and getPrevious download into the
\* third file, so a failed download is heard one move later, never at once.
DownloadSparesPlayed ==
    [][booting = "done" => /\ slot'[current_song] = slot[current_song]
                           /\ slot'[current_song'] = slot[current_song']]_vars

\* What the handler's comments promise (server/src/main.cpp:143, 168): the
\* previous song is the one before the cursor, and the cursor steps back by one.
PreviousIsBefore ==
    [][stage = "sent" /\ stage' = "answered" /\ request = "previous" =>
         IF Id = 0
         THEN body' = songs[Before(playlist_count)] /\ UNCHANGED playlist_count
         ELSE /\ body' = songs[Before(Before(playlist_count))]
              /\ playlist_count' = Before(playlist_count)]_vars

=============================================================================
