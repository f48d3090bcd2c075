CONSTANTS
  MaxComponents = 2
  MaxEntities = 3
  Value = {v1, v2}
SPECIFICATION Spec
INVARIANTS
  TypeOK
  SparseDenseAgree
  WithinCapacity
PROPERTY StoreSpec
SYMMETRY ValueSymmetry
