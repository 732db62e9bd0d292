CONSTANTS
    Connections = {c1}
    MaxSequence = 2
    LineCapacity = 1
SPECIFICATION FairSpec
PROPERTY DrainEnds
