SPECIFICATION Spec
CONSTANTS
    Requests = {r1}
    Views = {v1}
    MaxRefreshes = 2
    TTL = 2
    MaxQuery = 1
    None = None
INVARIANT PanelNeverLooksFresher
