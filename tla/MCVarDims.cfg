CONSTANTS
    MaxSize = 3
    Window = 2
SPECIFICATION Spec
INVARIANTS Broadcasted SelectsInOrder
PROPERTIES SizeKept
