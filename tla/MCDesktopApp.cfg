SPECIFICATION Spec
CONSTANTS
    None = None
    w1 = w1
    w2 = w2
    tray = tray
    Slots = {w1, w2, tray}
    Tray = tray
    Values = {"", "x"}
    InitialConfigs <- MCInitialConfigs
    MaxRuns = 3
    MaxAsked = 3
SYMMETRY WindowSymmetry
INVARIANTS DisconnectIsFinal OneLiveRun StateOfCurrentRun RunUsesSavedConfig
PROPERTIES SectionEditsSurvive
