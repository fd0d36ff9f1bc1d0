--------------------------- MODULE PureFunctions ---------------------------
(* The functions of the library that keep no state, one call at a time.      *)
EXTENDS BuiltinOperations, TypeMatching, Layouts, StringConversion, DimIter,
        Datashape, DateTexts

vars == <<call, outcome>>

Init == /\ outcome = Pending
        /\ \/ CalendarCall \/ DateTextCall \/ TimeTextCall \/ DatetimeTextCall
           \/ BuiltinCall \/ ReduceCall \/ MatchCall \/ LayoutCall \/ StringCall \/ IterCall
           \/ DatashapeCall

Next == \/ UseCalendar \/ ReadDateText \/ ReadTimeText \/ ReadDatetimeText
        \/ AssignValue \/ CompareValues \/ PromoteTypes
        \/ ReduceArray
        \/ MatchTypes
        \/ IndexArray \/ JoinShapes \/ MakeEmptyLike \/ ViewBytes
        \/ ConvertString
        \/ IterateDim
        \/ ParseType

Spec == Init /\ [][Next]_vars
=============================================================================
