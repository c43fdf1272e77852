SPECIFICATION FairSpec
CONSTANTS
  MaxLBA = 1
  MaxLEN = 3
  RetryLimits = {0, 2}
  TransferLimits = {1, 2}
INVARIANTS
  SuccessIsComplete
  FailureIsEarned
  ControlComesLast
  FreeWhenTold
PROPERTIES
  TransferSpec
  CallsComeNearer
  EveryCallAnswered
