CONSTANTS
    Lists = {free, used}
    Nodes = {n1, n2, n3, n4}
    NULL = NULL
SYMMETRY MC_Symmetry
SPECIFICATION Spec
INVARIANTS WellLinked
PROPERTIES ActsOnSequences
