CONSTANTS
    Channels <- OneChannel
    MaxOpens = 2
    MaxItems = 4
    PtyMayFail = TRUE
SPECIFICATION FairSpec
INVARIANT PtyAgrees
INVARIANT ClosedLinkIsSilent
PROPERTY PtyStreamContiguous
PROPERTY LinkSettles
CHECK_DEADLOCK FALSE
