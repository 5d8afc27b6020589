CONSTANTS
  Bundles <- Releases
  Documents <- BundledDocuments
  Records <- BundledRecords
  JSONFirst = FALSE
SPECIFICATION FairSpec
INVARIANTS RecordsAreThere PulledUnlessFailed
PROPERTY LoadingEnds
CHECK_DEADLOCK FALSE
