SPECIFICATION SlotSpec
CONSTANTS Jobs = {j1, j2, j3}  NoOwner = NoOwner  Platforms = {"windows"}
SYMMETRY JobSymmetry
INVARIANTS SlotMeansNoWorker
CHECK_DEADLOCK FALSE
