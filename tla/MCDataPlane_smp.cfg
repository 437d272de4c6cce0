\* Three CPUs, a user who changes the percentage and reads the statistics.
SPECIFICATION Spec
CONSTANTS
    CPUs = {cpu0, cpu1, cpu2}
    Settings = {0, 1, 100, 101}
    Draws = {0, 99}
    Costs = {1}
    MaxPackets = 3
    None = None
SYMMETRY CPUSymmetry
INVARIANTS TypeOK NeverOvercounts ReportsNoMoreThanHappened LossExtremes ExactUnlessRaced
PROPERTIES MonotoneUnlessRaced
