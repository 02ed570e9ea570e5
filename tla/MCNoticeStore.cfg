SPECIFICATION StoreSpec
CONSTANTS
  Id <- MCId
  Record <- MCRecord
  FieldSeq <- MCFieldSeq
  Notice <- MCNotice
  MaxDocs = 2
  MaxItems = 2
  MaxNew = 1
INVARIANTS
  RowsHoldNotices
PROPERTIES
  DeletedIsGone
  PushedIsSeen
  UpdatedIsFound
CHECK_DEADLOCK FALSE
