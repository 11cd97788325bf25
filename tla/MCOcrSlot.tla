------------------------------ MODULE MCOcrSlot ------------------------------
EXTENDS OcrSlot, TLC

JobSymmetry == Permutations(Jobs)
=============================================================================
