CONSTANTS
    IntWidth = 28
    Scale = 2
    StringNumber <- MCStringNumber
    Schema <- MCSchema
    Texts <- MCTexts
    MaxRows = 3
    MaxFaults = 2
SPECIFICATION Spec
INVARIANTS ReadsRight InsertsExact ChangesExact 
PROPERTY ReadersChangeNothing
CHECK_DEADLOCK FALSE
