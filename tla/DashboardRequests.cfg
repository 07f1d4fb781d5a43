CONSTANTS
    Null = Null  Absent = Absent
    Rows = {1, 2, 3, 4, 5, 6}
    Learner <- MCLearner
    Contract <- MCContract
    Run <- MCRun
    Contents <- MCContents
    Decisions <- MCDecisions
    PanelRows = {1, 2, 3}
    PanelContents <- MCPanelContents
    Requests <- MCRequests
    Offsets = {0, 1, 3}
    Floor = 2  LastDay = 1  MaxRefreshes = 1
SPECIFICATION Spec
INVARIANTS CountsAgreeWithRows TileMatchesDirectory WalkComplete RollupSharesWhenAllDo
PROPERTY WithheldInvisible
