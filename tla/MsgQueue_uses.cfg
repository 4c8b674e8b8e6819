SPECIFICATION Spec
CONSTANTS
  Msgs = {a, b, c}
  NoMsg = none
  Capacity = 3
  SizeMod = 8
  MaxAdds = 6
  Uses = {"read", "edit"}
SYMMETRY MsgSymmetry
INVARIANTS
  TypeOK
  ListShape
  Chained
PROPERTIES
  FifoSpec
