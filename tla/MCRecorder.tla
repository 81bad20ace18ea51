------------------------------ MODULE MCRecorder ------------------------------
EXTENDS Recorder

(* The SIP reader receives into one buffer, the tracks of pion do not.     *)
MCReusedBuffers == {"user"}
===============================================================================
