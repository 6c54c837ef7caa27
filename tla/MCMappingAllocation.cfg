CONSTANTS
    Types <- MCTypes
    Programs <- MCPrograms
    Recordings <- CallsInARow
    Mapped = {"main", "g", "system"}
    System = {"system"}
    Heap = {"h", "k"}
    Bodies <- MCBodies
    BitsPerByte = 3
    Finer = 4
    Scalars <- MCScalars
SPECIFICATION MovementOnly
INVARIANTS
    AnyAllocationIsFound
CHECK_DEADLOCK FALSE
