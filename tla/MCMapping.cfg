CONSTANTS
    Types <- MCTypes
    Programs <- MCPrograms
    Recordings <- MCRecordings
    Mapped = {"main", "g", "system"}
    System = {"system"}
    Heap = {"h", "k"}
    Bodies <- MCBodies
    BitsPerByte = 3
    Finer = 4
    Scalars <- MCScalars
SPECIFICATION Spec
INVARIANTS
    EdgesAreTrue
    LayoutFollowsPointers
    ContentsAreShown
    UnitsMatch
    MovementsReachTheirPoint
    VisibleIsScope
    TextsAgree
CHECK_DEADLOCK FALSE
