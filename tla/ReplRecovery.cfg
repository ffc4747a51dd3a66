CONSTANTS
    Session <- MCSession
    MaxTurns = 3
    MaxBatch = 2
    MaxInputs = 2
    MaxCalls = 3

SPECIFICATION Spec

INVARIANT RequestsAnswerToolCalls
