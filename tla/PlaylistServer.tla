--------------------------- MODULE PlaylistServer ---------------------------
(***************************************************************************)
(* The playlist that the HTTP server keeps (server/src/main.cpp and        *)
(* server/src/file_handler_t.cpp): the order of the songs, a cursor into   *)
(* it, and the handlers that read and move them.  The server runs every    *)
(* handler on one thread, so a handler is one step.                        *)
(*                                                                         *)
(* A song is the index it has in original_playlist.  The files' contents,  *)
(* headers and sizes are left out; that a file cannot be opened is a       *)
(* separate outcome of a request (status 500, which moves nothing).        *)
(***************************************************************************)
EXTENDS Integers

CONSTANTS
    NumSongs,       \* songs in the music directory when the server started
    SizeTBits,      \* width of size_t on the server
    SizeTResidue,   \* 2^SizeTBits modulo NumSongs
    ShuffledOrders  \* the orders shuffle() may draw

Index == 0 .. NumSongs - 1
Song == Index

\* 2^b modulo NumSongs for every b, without ever holding 2^b.
PowerOfTwo[b \in Nat] ==
    IF b = 0 THEN 1 % NumSongs ELSE (2 * PowerOfTwo[b - 1]) % NumSongs

Orders == {o \in [Index -> Song] : \A i, j \in Index : o[i] = o[j] => i = j}

ASSUME NumSongsAssumption == NumSongs \in Nat \ {0}
ASSUME SizeTAssumption ==
    /\ SizeTBits \in Nat
    /\ SizeTResidue \in Index
    /\ SizeTResidue = PowerOfTwo[SizeTBits]
ASSUME OrdersAssumption == ShuffledOrders \subseteq Orders

VARIABLES
    songs,           \* FileHandler::songs, the order being played
    playlist_count,  \* the cursor, a global int
    shuffled         \* FileHandler::shuffled

serverVars == <<songs, playlist_count, shuffled>>

original_playlist == [i \in Index |-> i]

ServerTypeOK ==
    /\ songs \in [Index -> Song]
    /\ playlist_count \in Index
    /\ shuffled \in BOOLEAN

\* A server that starts (again) keeps nothing.
StartServer ==
    /\ songs' = original_playlist
    /\ playlist_count' = 0
    /\ shuffled' = FALSE

-----------------------------------------------------------------------------
\* Positions the handlers compute.

\* (playlist_count + d) % size().
Forward(i, d) == (i + d) % NumSongs

\* (playlist_count - d) % size(): size() is unsigned, so a negative difference
\* is first converted to 2^SizeTBits + (i - d).  The test "tmp < 0" that
\* follows in the code is never true.
Backward(i, d) ==
    IF d <= i THEN (i - d) % NumSongs ELSE (SizeTResidue + i - d) % NumSongs

\* The unsigned difference leads somewhere else than d places back.
Misses(i, d) == Backward(i, d) # (i - d) % NumSongs

\* Mutant: both kinds of request look one place away.
RequestedOneAway(op, id) ==
    CASE op = "current"  -> playlist_count
      [] op = "next"     -> Forward(playlist_count, 1)
      [] op = "previous" -> Backward(playlist_count, 1)

\* Where the song a request asks for stands.  id = 1 looks two places away
\* because the same request moves the cursor one place.
Requested(op, id) ==
    CASE op = "current"  -> playlist_count
      [] op = "next"     -> Forward(playlist_count, 1 + id)
      [] op = "previous" -> Backward(playlist_count, 1 + id)

\* Mutant: the cursor is not reduced modulo the number of songs.
MovedUnreduced(op, id) ==
    CASE op = "next" /\ id = 1     -> playlist_count + 1
      [] op = "previous" /\ id = 1 -> Backward(playlist_count, 1)
      [] OTHER                     -> playlist_count

\* Where the cursor stands after the request.
Moved(op, id) ==
    CASE op = "next" /\ id = 1     -> Forward(playlist_count, 1)
      [] op = "previous" /\ id = 1 -> Backward(playlist_count, 1)
      [] OTHER                     -> playlist_count

-----------------------------------------------------------------------------
\* A song request whose file can be opened: the file is sent, the cursor moves.
HandleRequest(op, id) ==
    /\ playlist_count' = Moved(op, id)
    /\ UNCHANGED <<songs, shuffled>>

\* POST /shuffle_playlist: shuffle() toggles between the original order and a
\* drawn one.  The cursor keeps its number, whatever song now stands there.
HandleShuffle ==
    /\ IF shuffled
       THEN songs' = original_playlist
       ELSE songs' \in ShuffledOrders
    /\ shuffled' = ~shuffled
    /\ UNCHANGED playlist_count

=============================================================================
