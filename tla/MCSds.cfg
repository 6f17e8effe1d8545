\* Strings of up to three bytes, headers of all types.
SPECIFICATION Spec
CONSTANTS
    Limit <- MCLimit
    MaxPrealloc = 4
    Texts <- MCTexts
    Formats <- MCFormats
    Sets <- MCSets
    Maps <- MCMaps
    MaxLen = 3
INVARIANTS
    TypeOK
    Sane
    CutsAsDocumented
    SplitJoins
    ReprReads
PROPERTY ImplementsByteString
