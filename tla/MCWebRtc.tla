------------------------------ MODULE MCWebRtc --------------------------------
EXTENDS WebRtc
===============================================================================
