CONSTANTS
    Thread = {t1}
    Var = {v1, v2, v3}
    Block = {b1, b2, b3, b4}
    NULL = NULL
    Features = {"fixed", "var", "tuple", "podarray", "eval", "groupby", "view"}
    SelfAssign = "never"
SPECIFICATION Spec
SYMMETRY Symmetry
INVARIANTS ImmutableBuffersNotWritable
PROPERTIES ImmutableForever RefinesRefCount
