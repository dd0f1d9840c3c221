CONSTANTS
    NoCtx = NoCtx
    Words <- MCWords
    ContextChoices <- MCContexts
    LockTimeout = 5
    GuestHasTools = TRUE
    MaxPending = 1
SPECIFICATION Spec
INVARIANTS NoHashWithoutRequest
