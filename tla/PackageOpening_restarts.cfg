CONSTANTS
  Databases = {primary, snapshots}
  Bootstrapped = {primary}
  WithAttachments = {primary}
  None = None
SPECIFICATION FairSpec
INVARIANTS AllDatabasesOpen ReportedUnlessCutShort
PROPERTIES OpeningEnds ContentIsDurable
CHECK_DEADLOCK FALSE
