CONSTANTS
    Run <- MCRun
    MaxActive = 1
    Unservable <- MCUnservable
    MaxInputs = 2

SPECIFICATION FairSpec

INVARIANTS
    TypeOK
    SlotMatchesRecord
    CompletionMatchesRecord
    NoStrandedWorker
    InputsInOrder
    NoIdleSlot

PROPERTIES
    TerminalIsFinal
    CancelTakesEffect
    QueueMovesOn
    ImplementsLifecycle
