----------------------------- MODULE MCPlayback -----------------------------
EXTENDS Playback
=============================================================================
