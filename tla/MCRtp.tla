--------------------------------- MODULE MCRtp ---------------------------------
EXTENDS Rtp, TLC

Symmetry == Permutations(Addrs)
===============================================================================
