CONSTANTS
    p1 = p1
    p2 = p2
    p3 = p3
    p4 = p4
    Procs = {p1, p2, p3, p4}
    Platforms = {"unix", "windows"}
    Scenes <- MCScenes
    Retries = 1
SPECIFICATION Spec
INVARIANTS
    OneHolder
    FoundWhenReady
    RestartSpawns
SYMMETRY Daemons
CHECK_DEADLOCK FALSE
