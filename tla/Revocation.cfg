SPECIFICATION PurgeSpec
CONSTANTS
    Files = {"a", "b"}  InFolder = {"b"}  Folder = "d"
    Nodes = {n1, n2}  FolderNode = FolderNode  NoNode = NoNode
    MaxDerived = 2
SYMMETRY NodeSymmetry
INVARIANTS RevocationIsPossible
CHECK_DEADLOCK FALSE
