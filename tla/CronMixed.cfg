SPECIFICATION CronSpec
CONSTANTS
    MaxTokens = 2
    MaxStep = 1
    Listed <- Tokens
CHECK_DEADLOCK FALSE
INVARIANT MixedFieldsKept
