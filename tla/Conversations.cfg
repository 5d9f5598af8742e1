CONSTANTS
    Configs <- MCConfigs
    Chains <- MCChains
    Hosts4 <- MCHosts4
    Hosts6 <- MCHosts6
SPECIFICATION Spec
INVARIANTS
    AnswersReturn
    AnswersFindBack
    ErrorsNameTheRequest
