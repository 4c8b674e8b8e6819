SPECIFICATION Spec
CONSTANTS
  Msgs = {a, b, c}
  NoMsg = none
  Capacity = 3
  SizeMod = 8
  MaxAdds = 4
  Uses = {"both"}
PROPERTIES
  FifoSpec
