SPECIFICATION Spec
INVARIANT FinalIsRead
CHECK_DEADLOCK FALSE
