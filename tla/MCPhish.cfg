SPECIFICATION Spec
CONSTANTS
  Nets <- SmallNets
  Contents <- FileContents
  Hash <- WordHash
  HWM = 1
  MaxMinnows = 7
INVARIANTS CountsMatch EndOfStream ReportRight
PROPERTY AllReaped
CHECK_DEADLOCK FALSE
