CONSTANTS
  Conns = {c1, c2}
  IPC_MAX_CLIENTS = 1
  MaxLen = 2
  FrameShapes <- Shapes
  MaxFrames = 2
  SocketRoom = 1
  NoConn = NoConn
SPECIFICATION Spec
INVARIANTS TypeOK AnswersInOrder HandledOnce BufferNeverFull SlotsMatch
SYMMETRY Symmetry
