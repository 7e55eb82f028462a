\* Every source is compiled; some are run, one of them again after a stop.
SPECIFICATION FairSpec
CONSTANTS
  Namespaced = {"go", "now", "done"}
  Sources <- MCSources
  Payloads = {TRUE, FALSE}
  Handlers = {"a", "stepper.stop"}
  Slots = {s1, s2}
  MaxMs = 2
  Calls <- MCCalls
INVARIANTS TypeOK RulesRunApart TriggerIsFresh
PROPERTY WaitsEnd
CHECK_DEADLOCK FALSE
