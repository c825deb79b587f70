CONSTANTS
  p1 = p1  p2 = p2  p3 = p3  a = a  b = b  s1 = s1  s2 = s2
  Packets = {p1, p2, p3}
  Events = {a, b}
  Slots = {s1, s2}
  EventOf <- MCEventOf
  SlotOf <- MCSlotOf
  Ambiguous = {b}
  Workers = {w1, w2}
  NoPacket = NoPacket
  QueueCap = 1
  CacheCap = 1
  JournalCap = 1
SPECIFICATION Spec
INVARIANTS
  AnsweredIsRecorded
  ReplyAnswersRequest
  RecordedOnce
PROPERTY
  Drained
CHECK_DEADLOCK FALSE
