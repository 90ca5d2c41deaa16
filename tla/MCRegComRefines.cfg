SPECIFICATION Spec
CONSTANTS
  r1 = r1
  r2 = r2
  r3 = r3
  cc = cc
  t1 = t1
  t2 = t2
  Thread = {t1, t2}
  NoThread = NoThread
  Reg <- MCReg
  Val <- MCVal
  Shape <- MCShape
  Calls <- MCCalls
  RepeatNumber = 2
  Faults = {"loss", "shortSend"}
  MaxBacklog = 1
  MaxPacket = 5
INVARIANTS TypeOK ReadIsCurrent WriteVerified QuietWhenFree
PROPERTIES IsRegFile
