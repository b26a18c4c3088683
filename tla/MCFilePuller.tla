---------------------------- MODULE MCFilePuller ----------------------------
EXTENDS FilePuller, TLC
CONSTANTS w1, w2
OneVersion == <<2>>
TwoVersions == <<2, 3>>
WorkerSymmetry == Permutations(Workers)
=============================================================================
