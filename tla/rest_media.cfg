SPECIFICATION FairSessionSpec
CONSTANTS
  ServerUrls <- TwoUrls
  DefaultUrl <- Backend
  Uses <- MediaUses
  Bodies <- AnyBodies
  ObjectBodies <- Objects
  NoBody <- Empty
  Forms <- UploadForms
  MaxCalls = 1
  MaxUploads = 2
INVARIANTS
  TypeOK
  ReportedIsKept
  DownloadsAreTrue
  RefusalsAreRight
PROPERTIES
  LedgerSpec
  CallsAnswered
