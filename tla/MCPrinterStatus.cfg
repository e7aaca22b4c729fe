SPECIFICATION psSpec
CONSTANT MaxReads = 3
PROPERTY StatusReturns
CHECK_DEADLOCK FALSE
