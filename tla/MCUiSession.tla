---------------------------- MODULE MCUiSession ----------------------------
EXTENDS UiSession, TLC

IoTaskSymmetry == Permutations(IoTask)
============================================================================
