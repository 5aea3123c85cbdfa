SPECIFICATION Spec
CONSTANTS
  Capacity = 5
  Item = {a, b}
INVARIANTS
  TypeOK
  Window
PROPERTY IsQueue
