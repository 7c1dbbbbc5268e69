CONSTANTS
  BlockLen = 8
  WordMod = 64
  MsgBufLen = 24
  RealmLen = 10
  NonceLen = 15
  HexLen = 4
  UserLen = 8
  FieldSize <- SizeOf
  MaxIdLen = 16
  MaxNodes = 2
  None = None
  Requests <- IdRequests
  Rows <- IdRows
  Answers <- CameraAnswers
SPECIFICATION Spec
INVARIANTS
  TypeOK
  RoundTrip
  PlainIdsServed
  ChallengeMet
  PiecesAlike
  VideoDescribed
  CustomaryRead
CHECK_DEADLOCK FALSE
