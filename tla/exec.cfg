SPECIFICATION Spec
CONSTANTS
  MaxCalls = 3
  Kinds = {"exec", "async", "wait"}
  Hazards = {"late", "quit", "nofork", "killed"}
INVARIANT TypeOK
INVARIANT ChildrenWatched
INVARIANT AnsweredOnce
INVARIANT AnswersOwnStatus
PROPERTY EveryCallAnswered
PROPERTY SeenAsRunCommand
CHECK_DEADLOCK FALSE
