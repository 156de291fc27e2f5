SPECIFICATION Spec
CONSTANTS
  None = None
  Corrupt = Corrupt
  Tokenless = Tokenless
  Clients = {c1, c2}
  MaxTokens = 1
  MaxInFlight = 2
  MaxVersion = 1
  Pages <- MCPages
SYMMETRY Symmetry
INVARIANTS
    DrawerShowsAsked
    SettledShowsFilter
    OwnChangesShown
    LogsNotHidden
    ErrorAdvice
    SpinnerAwaited
PROPERTIES
    LogoutIsFinal
    PagesNeedSession
