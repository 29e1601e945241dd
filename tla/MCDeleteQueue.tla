--------------------------- MODULE MCDeleteQueue ---------------------------
EXTENDS DeleteQueue

IoTaskSymmetry == Permutations(IoTask)
============================================================================
