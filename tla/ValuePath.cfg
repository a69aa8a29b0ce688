SPECIFICATION Spec
CONSTANTS
  Names <- TheNames
  Values <- TheValues
  Width = 9
  OutputSize = 18
INVARIANTS FieldsKeepApart StoredIsSent CutAnswerUnreadable UpdatesWriteAll
