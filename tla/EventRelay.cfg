\* Two clients, three events, room for two in the channel of the session and
\* for one at each client, so that both overflow.  The system stops when all are done.
SPECIFICATION FairSpec
CONSTANTS
  Subs = {s1, s2}
  Complete = 3
  Buf = 2
  SubBuf = 1
  NoSub = NoSub
INVARIANTS
  OnlyOverflowLoses
  StreamEndIsExplained
  NobodyLeftBehind
PROPERTIES
  RelayAlwaysEnds
CHECK_DEADLOCK FALSE
