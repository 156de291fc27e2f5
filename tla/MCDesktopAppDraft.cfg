SPECIFICATION Spec
CONSTANTS
    None = None
    w1 = w1
    w2 = w2
    tray = tray
    Slots = {w1, w2, tray}
    Tray = tray
    Values = {"", "x"}
    InitialConfigs <- MCInitialConfigs
    MaxRuns = 1
    MaxAsked = 2
SYMMETRY WindowSymmetry
PROPERTIES EditsSurvive
