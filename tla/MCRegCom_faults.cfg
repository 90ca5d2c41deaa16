SPECIFICATION FairSpec
CONSTANTS
  r1 = r1
  r2 = r2
  r3 = r3
  cc = cc
  t1 = t1
  t2 = t2
  Thread = {t1, t2}
  NoThread = NoThread
  Reg <- MCFewRegs
  Val <- MCVal
  Shape <- MCFewShape
  Calls <- MCFewCalls
  RepeatNumber = 2
  Faults = {"shortSend", "late", "sendError", "recvError", "close"}
  MaxBacklog = 0
  MaxPacket = 0
INVARIANTS LockDiscipline
PROPERTIES LockIsReleased
CHECK_DEADLOCK FALSE
