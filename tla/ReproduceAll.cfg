SPECIFICATION Spec
INVARIANTS
    PassedMeansLastCommands
    StopsAtFailedStage
PROPERTY StatusWritten
