---------------------------- MODULE MCAudioFanout ----------------------------
EXTENDS AudioFanout, TLC

Symmetry == Permutations(Clients)
=============================================================================
