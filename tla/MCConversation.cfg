SPECIFICATION FairSpec
CONSTANTS
  MaxFrames <- MCMaxFrames
  WireCap = 2
INVARIANTS HistoryStaysOut TurnIsWhole
PROPERTIES BarrierOpens
CHECK_DEADLOCK FALSE
