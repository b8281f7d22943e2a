SPECIFICATION Spec
CONSTANTS
  MaxConnectAttempts = 2
  StallTimeout = 3
  NoProgressTimeout = 4
  TailGrace = 2
  StartHoldTimeout = 2
  KeepaliveInterval = 1
  MaxFrames = 2
  BufferCap = 1
INVARIANTS
  SilenceBounded
