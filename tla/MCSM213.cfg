SPECIFICATION Spec
CONSTANT
  ByteCapacity = 16384
INVARIANTS
  ResultAsInC
  OnlyItsOwnMemory
  
PROPERTY
  Halts
