CONSTANTS
    Sources <- MCSources
    MaxIter = 2
    MaxAttempts = 2
    MaxDefCallDepth = 3
SPECIFICATION Spec
INVARIANTS TypeOK  PrecedenceAgrees LexicalDepths CleanExit CleanupLive NamesResolve ShapesSound CheckedLowers
PROPERTIES NewestFirst ScriptEnds
CHECK_DEADLOCK FALSE
