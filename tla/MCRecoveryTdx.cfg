SPECIFICATION FairSpec
CONSTANTS
  Epoch = {e1}
  Support = {"MINUTE_BARS", "DAILY_BARS", "TDX_BLOCKS"}
  Advanced = {"MINUTE_BARS", "DAILY_BARS"}
  Stamp = {"current"}
  Valid = 1
  MaxTime = 1
  MaxQuotes = 2
  MaxRestores = 1
  MaxLogins = 0
  MaxWarming = 0
PROPERTY RecoveryCompletes
CHECK_DEADLOCK FALSE
