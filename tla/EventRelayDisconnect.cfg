\* One client that disconnects while the relay is about to send to it.
SPECIFICATION Spec
CONSTANTS
  Subs = {s1, s2}
  Complete = 2
  Buf = 1
  SubBuf = 1
  NoSub = NoSub
SYMMETRY Symmetry
INVARIANTS
  DisconnectIsHarmless
CHECK_DEADLOCK FALSE
