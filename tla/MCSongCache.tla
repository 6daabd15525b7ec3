---------------------------- MODULE MCSongCache ----------------------------
(* SongCache with the constants the configurations give it: five songs, which like
   the eleven of server/music do not divide the range of size_t, in every order
   with the same first song, one of each pair that differ in direction only; or
   the eleven themselves, turned around.                                      *)
EXTENDS JukeboxRefinement

SameFirst == {o \in Orders : o[0] = 0 /\ o[1] < o[4]}

TurnedAround == {[i \in Index |-> NumSongs - 1 - i]}
=============================================================================
