SPECIFICATION Spec
CONSTANTS
    r1 = r1
    j = j
    Nobody = Nobody
    App = r1
    Migrators = {r1, j}
    Replicas = {r1}
    CreateSchema = TRUE
    MaxFaults = 2
INVARIANTS
    VersionTellsSchema
    NobodyCollides
    ServesScopedRows
    UsersHaveResources
    CleanExitFinishedAll
PROPERTIES
    ServesUnlessDirty
