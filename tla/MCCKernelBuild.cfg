SPECIFICATION Spec
CONSTANTS
    Builders = {k1, k2}
    Kinds = {"leaf", "elwise", "tuple", "option", "srcexpr"}
    SecondKinds = {"leaf"}
    MaxKernels = 5
SYMMETRY BuilderSymmetry
INVARIANTS KernelsFit TreeComplete DestroyedOnce NoDanglingUse
