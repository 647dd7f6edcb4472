\* Numbers of sixteen bits, two levels of replies, four of JSON.
CONSTANTS
    None = None
    Bad = Bad
    Error = Error
    ServiceUnavailable = ServiceUnavailable
    NotFound = NotFound
    MaxInt = 65535
    PrefixOf <- MCPrefixOf
    TokenOf <- MCTokenOf
    JsonDepth = 4
    MAX_DEPTH = 2
    Launches <- MCLaunches
    Bearers <- MCBearers
    Answers <- MCAnswers
    Calls <- MCCalls
    Outcomes <- MCOutcomes
    Texts <- MCTexts
    CommandLimits = {1, 2}
    ElementLimits = {1, 2, 3, 4, 5, 6, 7, 8, 9, 10}
    ResponseLimits = {10, 24, 60}
    Now = 100
    ReadBody <- ParseBody
    ReplyError <- OutcomeError
    Charged <- ChargeSlots
SPECIFICATION PathSpec
INVARIANTS
    ConfigurationsWork
    TokensReachTheirPool
    CredentialsHold
    NothingOutlivesTheRequest
    PolicyHolds
    SlotsAnswerTheirCommands
    ReplyWithinBudget
    ParseIsExact
CHECK_DEADLOCK FALSE
