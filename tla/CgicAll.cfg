CONSTANTS
  TempFiles = {1, 2, 3}
  MaxFaults = 1
  FormData <- FDATA
  Disposition <- DISP
  TypeHeader <- CTYPE
  NameWord <- NAMEW
  FileNameWord <- FILEW
  BoundaryWord <- BOUND
  NameSpace = 3
  AddressSpace = 4
  TextSpace = 3
  FirstRequests <- MCFirst
  LaterRequests <- MCLater
  MaxRequests = 2
  UrlEncoded <- URLENC
  MultipartForm <- MPFORM
SPECIFICATION FairSpec
INVARIANTS TypeOK FormRead NothingLost WithinDeclared SpaceSuffices TypedIsShown
  AnswersAgree TempFilesGone RestoredIsSaved
PROPERTY RequestEnds
CHECK_DEADLOCK FALSE
