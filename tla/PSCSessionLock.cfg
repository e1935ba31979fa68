SPECIFICATION Spec
CONSTANTS
  t1 = t1
  t2 = t2
  r1 = r1
  r2 = r2
  s1 = s1
  NoRec = NoRec
  Thread <- MCThread
  Rec <- MCRec
  ProcOnConnect <- MCProcOnConnect
INVARIANT NoLockCycle
CHECK_DEADLOCK FALSE
