SPECIFICATION MCSpec
CONSTANTS
    Facts <- MCFacts
    Queries <- MCQueries
    Codes = {"calls"}
    Granted <- MCGranted
    DimensionsText <- MCDimensionsText
    ProcessZone = 0
INVARIANTS
    FactsInOneWindow
    QuietWalkExact
    PointsUpToDate
    ShownAuthorized
