SPECIFICATION Spec
CONSTANTS
  Request = {r1}
  MaxFails = 3
  Duration = 2
  MaxCount = 6
  MaxNow = 8
PROPERTIES
  ImplementsAtomic
