\* One directory, two slots, two retry requests, one fault.
CONSTANTS
    NDirs = 1
    Slots = 2
    Requests = {r1, r2}
    MaxFaults = 1
SYMMETRY RequestSymmetry
SPECIFICATION Spec
INVARIANTS TypeOK OneLiveCommand CancelStopsWork
PROPERTIES LateAdoptionIsCurrent
