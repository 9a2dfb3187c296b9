\* Four addresses and one variable.
SPECIFICATION Spec
CONSTANTS
  Objects = {o1, o2, o3, o4}
  Vars = {x}
  NoObject = NoObject
  MaxParts = 2
SYMMETRY Symmetric
INVARIANTS CollectorTypeOK NoDangling NoCycles
PROPERTY OnlyDictsLeak
