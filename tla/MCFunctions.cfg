CONSTANTS
    Width <- MCWidth
    Precision <- MCPrecision
    Exponent <- MCExponent
    Samples <- MCSamples
    Promotable <- MCPromotable
    Reducible <- MCShapes
    Shapes <- MCShapes
    Indexes <- MCIndexes
    Steps <- MCSteps
    Inputs <- MCInputs
    Patterns <- MCPatterns
    Candidates <- MCCandidates
    Characters <- MCCharacters
    Malformed <- MCMalformed
    Texts <- MCTexts
    DimSizes = {0, 1, 2, 3, 5}
    Buffers = {0, 1, 2, 3, 5}
    MaxScript = 4
    WrittenTypes <- MCTypes
    TickDigits = 2
    Days <- MCDays
    DateFields <- MCDateFields
    TimeInputs <- MCTimeInputs
    Instants <- MCInstants
    Replacements <- MCReplacements
    Datetimes <- MCDatetimes
    Conversions <- MCConversions
    ThisYear = 2015
    Unset = {0, 59, 99}
    WrittenDates <- MCWrittenDates
    WrittenTimes <- MCWrittenTimes
    Environments <- MCEnvironments
SPECIFICATION Spec
INVARIANTS AssignAsPromised LosslessKeepsValue ComparedAndSorted PromotedAlike
INVARIANTS ReducesAsFold MatchesInstances EllipsisBroadcasts SlicesSelect BroadcastsTogether LaidOut StringsConverted IteratesElements DatashapesRoundtrip
INVARIANTS CalendarExact TextsRead
CHECK_DEADLOCK FALSE
