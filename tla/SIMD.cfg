CONSTANTS
  c1 = c1  c2 = c2  t1 = t1  t2 = t2  t3 = t3
  Cpus = {c1, c2}
  Tasks = {t1, t2, t3}
  InitTask <- InitOf
  Blocks = {b1, b2}
  Values = {v1, v2}
  None = none
SPECIFICATION Spec
INVARIANT UntrappedIsOwner
INVARIANT ValuesFound
SYMMETRY Symmetry
