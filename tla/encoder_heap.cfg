SPECIFICATION Spec
CONSTANT MaxInits = 3
INVARIANTS TypeOK NoWildFree WholeOrNone OnlyLspLeaks CrashMeansFailure
CHECK_DEADLOCK FALSE
