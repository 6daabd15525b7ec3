----------------------------- MODULE MCButtons -----------------------------
(* Buttons with fewer lines than the six of the board: a line nobody uses
   stays at its pull-up level and takes no part in a poll.                   *)
EXTENDS Buttons

OneBeforeVolume == <<"SHUFFLE", "VOLUMEUP", "VOLUMEDOWN">>
VolumeOnly == <<"VOLUMEUP", "VOLUMEDOWN">>
=============================================================================
