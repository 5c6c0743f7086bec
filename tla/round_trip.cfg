SPECIFICATION Spec
CONSTANTS
    NICE_LEN_FOR_PRIOR = 7
    NICE_LEN_FOR_OTHER = 12
    VarintBase = 128
    Texts <- KeysAndWords
    EarlierLines <- NoLines
INVARIANT RoundTrip
