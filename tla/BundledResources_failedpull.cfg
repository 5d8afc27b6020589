CONSTANTS
  Bundles <- Releases
  Documents <- BundledDocuments
  Records <- BundledRecords
  JSONFirst = FALSE
SPECIFICATION Spec
INVARIANT ChecksumMeansLoaded
CHECK_DEADLOCK FALSE
