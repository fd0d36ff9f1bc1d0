CONSTANTS
    Thread = {t1, t2}
    Var = {v1, v2}
    Block = {b1, b2, b3}
    NULL = NULL
    Features = {"var", "varstring", "index"}
    SelfAssign = "never"
SPECIFICATION FairSpec
PROPERTIES RefinesRefCount OperationsEnd
