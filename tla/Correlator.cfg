SPECIFICATION EmitterSpec
CONSTANTS
    e1 = e1
    e2 = e2
    Emitters <- MCEmitters
    Cap = 2
    Window = 1
    Idle = 1
    Warmup = 1
    MinChurn = 2
    MaxTraces = 1
    Horizon = 3
    MaxTime = 5
    MaxEvents = 3
    None = None
INVARIANTS TypeOK FoldedOnceInOrder RingIsLatest TracesCohere
PROPERTIES EmitNeverBlocks ActiveIsClosed
