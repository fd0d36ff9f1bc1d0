CONSTANTS
    MaxSize = 3
    Window = 2
SPECIFICATION Spec
INVARIANT OnesRepeated
