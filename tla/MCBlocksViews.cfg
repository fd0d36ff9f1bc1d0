CONSTANTS
    Thread = {t1}
    Var = {v1, v2, v3}
    Block = {b1, b2, b3, b4}
    NULL = NULL
    Features = {"fixed", "string", "varstring", "view", "index", "bytes", "data"}
    SelfAssign = "shared"
SPECIFICATION Spec
SYMMETRY Symmetry
INVARIANTS NoIsland ImmutableNotWritable
PROPERTIES RefinesRefCount
