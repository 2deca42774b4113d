SPECIFICATION Spec
CONSTANTS
    MaximumQuoteAge = 1
    Tick <- MCTick
    TapeLength = 4
    End = 3
    Lookback = 3
    ShortWindow = 1
    LongWindow = 2
    Atr = 10
    Balanced = 5
    Deadband = 2
    FullResponse = 25
    FullDepth = 2
    Absent = Absent
    Top = 4
    PageSize = 1
INVARIANTS
    TypeOK
    JudgedOnAllTicks
    AgreesWithLive
    BucketsAddUp
    BuyersLikeSellers
PROPERTIES
    FetchEnds
