SPECIFICATION Spec
INVARIANTS  StoresHold MessagesHold LibrariesAreExact
PROPERTIES  AnswersAreProtected
CHECK_DEADLOCK FALSE
