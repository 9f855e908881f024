SPECIFICATION Spec
CONSTANTS
    draw = draw
    dispatch = dispatch
    e1 = e1
    Pipeline = {draw, dispatch}
    Raster = {draw}
    Executor = {e1}
    Owner <- OwnerDef
    Queue = {q1, q2}
    Buffer = {b1, b2}
    None = None
    Slots = 1
    MaxRecords = 2
    MaxList = 2
    MaxUniforms = 1
    MaxCommits = 2
SYMMETRY SymmetryQueue
INVARIANTS MeshesHeld IndicesNameTheirBuffers UniformsStableOnQueue DrawnOnceAsRecorded
CHECK_DEADLOCK FALSE
