SPECIFICATION Spec
CONSTANTS
  a = a
  b = b
  s1 = s1
  s2 = s2
  e1 = e1
  e2 = e2
  NoSub = NoSub
  NoEvent = NoEvent
  Hub = {a, b}
  Sub = {s1, s2}
  WebSocket = {s1}
  Event = {e1, e2}
  Home <- AllAtA
  Origin <- OneFromB
  ReplayLimit = 1
  MaxFaults = 1
INVARIANTS TypeOK OnceLive Listening NoGap
CHECK_DEADLOCK FALSE
