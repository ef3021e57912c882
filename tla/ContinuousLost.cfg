\* One change and nothing that fails
CONSTANTS
  MaxVersion = 1
  Content <- MCContent
  Forms = {"debounced"}
  MaxLockRetries = 1
  MaxScans = 0
  MaxFaults = 0
SPECIFICATION Spec
CHECK_DEADLOCK FALSE
INVARIANTS ReceivedIsSettled
