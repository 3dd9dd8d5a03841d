CONSTANTS
    Writers <- SomeWriters
    InitFiles <- SomeFiles
    Models <- SomeModels
    Scenes <- SomeScenes
SPECIFICATION Spec
INVARIANTS
    RetrievalFindsNothing
    ComparedInOneSpace
    SettingsKept
    RetriesEnd
    ClaimsAreStored
