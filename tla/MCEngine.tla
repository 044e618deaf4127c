------------------------------ MODULE MCEngine -------------------------------
EXTENDS EngineSerial, TLC
Symmetry == Permutations(Keys) \cup Permutations(Values)
==============================================================================
