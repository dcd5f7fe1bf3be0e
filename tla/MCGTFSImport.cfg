CONSTANTS
  Import = {1, 2}
  Faulty = {1, 2}
  Time = {0, 1}
  a = a
  b = b
  bad = bad
  odd = odd
  NoTime = NoTime
  NoNetwork = NoNetwork
  NoImport = NoImport
  NoDownload = NoDownload
  NoKey = NoKey
  Body <- MCBody
  Download <- MCDownload
  Archive <- MCArchive
SPECIFICATION FairSpec
INVARIANTS CurrentIsNewest NetworkIsCurrent ArchivedBeforeUse ReportMatchesRow
PROPERTIES ImplementsNetwork ImportsSettle
CHECK_DEADLOCK FALSE
