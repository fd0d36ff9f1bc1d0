CONSTANTS
    Thread = {t1, t2}
    Block = {b1, b2, b3}
    Var = {v1, v2}
    NULL = NULL
    Slot <- MCSlot
    Owner <- MCOwner
SPECIFICATION Spec
SYMMETRY Symmetry
INVARIANTS RefcountExact NoDangling FreedOnce
CHECK_DEADLOCK FALSE
