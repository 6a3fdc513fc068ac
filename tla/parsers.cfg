SPECIFICATION Spec
CONSTANTS
  StreamLimit <- Limits
  Bytes <- Alphabets
  ChecksumWrap = 4
  CrsfSync = {4}
  CrsfMaxLength = 3
  SbusHeader = 4
  SbusFooter = 0
  SbusReserved = {2}
  SbusLost = {1}
  SbusSize = 3
  LqWindow = 2
  Stx = 3
  Signed = {2}
  HeaderSize = 2
  CrcSize = 1
  SignatureSize = 1
CHECK_DEADLOCK FALSE
INVARIANTS TypeOK ParserIsExact QualityIsShare
