SPECIFICATION FairSpec
CONSTANTS
  migrate = migrate
  enable = enable
  quick = quick
  Calls <- MCCalls
  Async <- MCAsync
  Untimed <- MCUntimed
  UsesUi <- MCUsesUi
  Reporting <- MCReporting
  PoolSize = 2
  MaxEvents = 2
INVARIANTS SlotsMatchPromises CountIsExact NoHandlerAfterClose ProgressBeforeAnswer
PROPERTIES ImplementsContract PromisesSettle ShutdownCompletes
CHECK_DEADLOCK FALSE
