SPECIFICATION Spec
CONSTANTS
    M = 40
    Isn = 36
    Total = 10
    Wnd = 8
    MaxSeg = 4
    AnnStep = 2
    UpdStep = 3
INVARIANTS StreamInOrder OoseqSound WindowConserved PromiseKept WindowReopens
PROPERTY AllDelivered
