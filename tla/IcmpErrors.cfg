CONSTANTS
    Messages4 <- MCMessages4
    Messages6 <- MCMessages6
    Configs <- MCConfigs
SPECIFICATION ErrorsSpec
INVARIANTS
    MeaningKept
    SecondCarriesOn
    QuoteIdentifies
    ErrorFits
