SPECIFICATION FairSpec
CONSTANTS
  Central = central
  Backup = backup
  None = none
  central = central
  backup = backup
  none = none
  Timeout <- MCTimeout
  LeaseTTL <- MCLeaseTTL
  MaxWait <- MCMaxWait
  MaxFault = 2
  MaxBackupCrash = 1
PROPERTY DualCommandEnds
CHECK_DEADLOCK FALSE
