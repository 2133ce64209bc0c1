SPECIFICATION Spec
CONSTANTS
    h1 = h1
    h2 = h2
    x1 = x1
    s1 = s1
    Handlers <- MCHandlers
    Exporters <- MCExporters
    Sources <- MCSources
    DocTypes <- MCDocTypes
    Workloads <- MCWorkloads
SYMMETRY MCSymmetry
INVARIANTS
    CurrentRestsOnActive
    PackagesAreConfirmed
    AdviceIsPossible
