------------------------- MODULE JukeboxRefinement -------------------------
(***************************************************************************)
(* SongCache seen as a Jukebox.  The list is the server's order, the place *)
(* is the one the client is on, the song heard is the file of the current  *)
(* slot, and a song is sure if its slot was filled whole since the last    *)
(* upset.  The steps of a download between its beginning and its end are   *)
(* stuttering steps, unless the cursor misses the place before: to the     *)
(* listener this is a Disorder, possible where NumSongs does not divide    *)
(* 2^SizeTBits.                                                            *)
(***************************************************************************)
EXTENDS SongCache

\* The slot of the song o places away.
SlotAt(o) == (current_song + 3 + o) % 3

SureSongs == {o \in -1 .. 1 : SlotAt(o) \in fresh}

J == INSTANCE Jukebox WITH
        order <- songs,
        place <- Home,
        started <- booting = "done",
        heard <- slot[current_song],
        sure <- SureSongs,
        FaultsPossible <- FaultsPossible \/ SizeTResidue # 0

\* Through every interleaving of downloads, shuffles, lost requests, late
\* requests and restarts, the three files and the two programs that keep them
\* look to the listener like one list: a press moves one place, the file played
\* changes with a press only, and it is the song of that place whenever that
\* song was sure.
PlaysTheOrder == J!Spec

=============================================================================
