SPECIFICATION Spec
CONSTANTS
    c1 = c1
    c2 = c2
    c3 = c3
    Chips = {c1, c2, c3}
    MaxPort = 3
    Movable = {c1}
    Decoded = {c2, c3}
    Skipped = {c1}
    Serials <- FewSerials
    Images <- SomeImages
    Protected = {c1}
    MaxProcesses = 1
SYMMETRY Symmetry
CHECK_DEADLOCK FALSE
INVARIANTS TypeOK KeptWhileBusy DedupedUnique PassMeansRestored
