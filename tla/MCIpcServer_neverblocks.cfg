CONSTANTS
  Conns = {c1, c2}
  IPC_MAX_CLIENTS = 2
  MaxLen = 1
  FrameShapes <- FewShapes
  MaxFrames = 2
  SocketRoom = 1
  NoConn = NoConn
SPECIFICATION LiveSpec
PROPERTY LoopTurns
