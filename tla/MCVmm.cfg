CONSTANTS
    M <- MC_M
    Visits <- MC_Visits
    Sizes = {1, 2, 3}
    Aligns = {1}
    Aboves = {0}
    MaxUsed = 3
    MaxFree = 8
SPECIFICATION FairSpec
INVARIANTS TypeOK BlocksDisjoint FreeCoalesced FreeFindsNeighbor
    SizeConserved NodesAccounted
PROPERTIES Settles ImplementsHeap
