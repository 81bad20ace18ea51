------------------------------- MODULE MCBridge -------------------------------
EXTENDS Bridge
===============================================================================
