SPECIFICATION FairSpec
CONSTANTS
  Byte = {0, 1, 2, 85, 170}
  MaxData = 2
  UrlSize = 2
  SeqRange = 2
  Handled = {}
  AppStates = {}
  Crc <- MCCrc
INVARIANTS
  TypeOK
  DataInBounds
PROPERTIES
  OnlyGoodFramesAct
  ParserReturns
  ParsesFrames
