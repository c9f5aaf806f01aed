SPECIFICATION Spec
CONSTANTS
  Bases <- MCBases
  BoxIds <- MCBoxIds
  Ids <- MCIds
  FilePaths <- MCFilePaths
  Called <- AllOperations
  Keys <- MCKeys
  Unsendable <- MCUnsendable
  Read <- MCRead
  MaxCalls = 2
INVARIANTS OneBoxPerKey ReachesItsTarget DeletionsAreConfirmed
CONSTRAINT ThenKeyed
