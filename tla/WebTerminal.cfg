\* Output, input and heartbeat of a session; USB takes the rings between sessions.
SPECIFICATION FairSpec
CONSTANTS
  TERM_RX_DEPTH = 2
  TERM_TX_DEPTH = 2
  Conns = {0, 1}
  OUTPUT_WINDOW = 2
  FRAME_BYTES = 2
  INPUT_BYTES = 2
  SequenceModulus = 8
  PingModulus = 3
  MaxMissedPongs = 1
  Setups <- Apart
  ChannelDepth = 2
INVARIANTS OutputIntact InputOnce RoomIsKept SessionsAreSound
PROPERTIES DeadBrowserReleased
