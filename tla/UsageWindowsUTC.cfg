SPECIFICATION MCSpec
CONSTANTS
    Facts <- MCFacts
    Queries <- Monthly
    Codes = {"calls"}
    Granted <- MCGranted
    DimensionsText <- MCDimensionsText
    ProcessZone <- UTC
INVARIANT
    FactsInOneWindow
