CONSTANTS
    Width <- MCWidth
    Precision <- MCPrecision
    Exponent <- MCExponent
    Samples <- None
    Promotable <- None
    Reducible <- None
    Shapes <- Trailing
    Indexes <- None
    Steps <- TrailingSteps
    Inputs <- None
    Patterns <- None
    Candidates <- None
    Characters <- MCCharacters
    Malformed <- MCMalformed
    Texts <- None
    DimSizes = {}
    Buffers = {}
    MaxScript = 0
    WrittenTypes <- None
    TickDigits = 2
    Days <- None
    DateFields <- None
    TimeInputs <- None
    Instants <- None
    Replacements <- None
    Datetimes <- None
    Conversions <- None
    ThisYear = 2015
    Unset <- None
    WrittenDates <- None
    WrittenTimes <- None
    Environments <- None
SPECIFICATION Spec
INVARIANT LooksFurther
CHECK_DEADLOCK FALSE
