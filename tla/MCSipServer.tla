----------------------------- MODULE MCSipServer ------------------------------
EXTENDS SipServer, TLC

Symmetry == Permutations(Sessions) \cup Permutations(Endpoints)
===============================================================================
