SPECIFICATION Spec
CONSTANTS
  Poll = 2
  Slack = 1
  MaxDelay = 14
  MinThreshold = 3
  TestInterval = 16
  Margin = 6
  Day = 9
  Slot = 6
  Retries = 1
  MaxStep = 1
  Horizon = 30
INVARIANTS ClockCovered SelfTestCovered DailySelfTest
CHECK_DEADLOCK FALSE
