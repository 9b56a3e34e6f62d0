SPECIFICATION Spec
CONSTANTS
    d1 = d1
    d2 = d2
    n1 = n1
    n2 = n2
    Older = Older
    Unwritten = Unwritten
    Dialog <- MCDialog
    Name <- MCName
    MaxTicks = 2
SYMMETRY Symmetry
INVARIANTS
    TypeOK
    TellsItsOwnTextOrALaterOne
    TimerRunsWhileWaiting
