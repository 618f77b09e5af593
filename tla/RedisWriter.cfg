SPECIFICATION Spec
CONSTANTS
  Thread = {t1, t2}
  Ctx = {c1, c2, c3}
  MaxFaults = 3
INVARIANTS
  TypeOK
  Exclusive
  NoLeak
  LossMasked
PROPERTY WriterSpec
