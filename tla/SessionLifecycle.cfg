SPECIFICATION MCSpec
CONSTANTS
  MaxSession = 2
  Request = {r1, r2}
  Window <- OneDay
  DayLength = 3
  AttendanceMinutes = 0
  MaxNow = 2
SYMMETRY Symmetry
INVARIANTS
  TypeOK
  OpenIsActive
  DoubleBookingExplained
  AloneListingIsAccurate
PROPERTIES
  ImplementsGate
