SPECIFICATION TransportSpec
CONSTANTS
    None = None
    MaxInFlight = 2
    MaxChanges = 2
    Drafts <- MCDrafts
INVARIANTS PanelTellsTruth FormTellsTruth
PROPERTIES WaitingEnds
