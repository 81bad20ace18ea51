------------------------------ MODULE MCPlayback ------------------------------
EXTENDS Playback
===============================================================================
