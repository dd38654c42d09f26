-------------------------- MODULE MCLanShareServer --------------------------
EXTENDS ServerProperties, TLC

Symmetry == Permutations(Session) \cup Permutations(Username)
=============================================================================
