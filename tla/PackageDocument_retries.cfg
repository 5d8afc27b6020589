SPECIFICATION FairSpec
CONSTANT MaxRetries = 3
INVARIANTS CleanedStaysClosed PathIsSet NoTemporaryFilesLeft
PROPERTIES FileKept CallsReturn
CHECK_DEADLOCK FALSE
