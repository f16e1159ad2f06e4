SPECIFICATION HostFairSpec
CONSTANTS
  Byte <- MCByte
  MaxData = 3
  UrlSize = 2
  SeqRange = 1
  Handled = {4}
  AppStates = {"IDLE"}
  Crc <- MCCrc
  Requests <- MCRequests
  HostSeqRange = 2
  MaxLost = 2
INVARIANTS
  ConfigInRange
  AnsweredInTurn
  AckMeansDone
PROPERTIES
  OnlySentCommandsAct
  Resynchronises
