SPECIFICATION Spec
CONSTANTS
  Start = "S"
  Succ <- MCSucc
  Bucket <- MCBucket
  Lines <- MCLines
  Modes <- TwinModes
  MaxNodes = 10
  MaxLowNodes = 10
  SearchNodes = 4
  SearchLowNodes = 5
INVARIANT DamagedLeftTable
