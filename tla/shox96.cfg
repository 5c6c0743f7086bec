SPECIFICATION Spec
CONSTANTS
    NICE_LEN_FOR_PRIOR = 3
    NICE_LEN_FOR_OTHER = 4
    VarintBase = 4
    Texts <- TextsWithoutDelayedRuns
    EarlierLines <- Lines
INVARIANTS TypeOK RoundTrip DecodedPrefix OutputFits CompressedBounded
PROPERTY PassesAdvance
